---- MODULE Spec2Model ----
(***************************************************************************)
(* A model of the nighres / cbstools orchestration layer:                  *)
(*   nighres/io/io_volume.py            load_volume, save_volume, time_log *)
(*   nighres/cortex/cruise_cortex_extraction.py   cruise_cortex_extraction *)
(*   cbstoolspython/brain/mgdm_segmentation.py    mgdm_segmentation and    *)
(*                                                its two helpers          *)
(* The external engine (nighresjava / cbstools), nibabel and the file      *)
(* system are the environment: the model keeps the calls made on the       *)
(* engine in `trace`, the files in `fs` and the time log in `logfile`.     *)
(***************************************************************************)
EXTENDS Integers, Sequences, FiniteSets, TLC

VARIABLES
    fs,        \* the file system: path -> NoFile or a file holding a volume
    logfile,   \* the time-log file: NoFile, or the JSON document it holds
    clock,     \* what time.time() returns next
    vm,        \* TRUE once initVM has started the engine runtime
    fn,        \* the function the top-level call runs
    pc,        \* where that call stands
    args,      \* its arguments
    loc,       \* its local variables
    trace,     \* the engine and VolumeIO calls it has made, in order
    outcome,   \* how it ended: returned value or raised error
    tlcalls,   \* history: every time_log call made, in call order
    fs0        \* history: the file system when the current call started

vars == <<fs, logfile, clock, vm, fn, pc, args, loc, trace, outcome, tlcalls, fs0>>

----------------------------------------------------------------------------
(* Bounds of the model.                                                    *)

\* how many of the eight CRUISE output files may be missing when some exist
MaxAbsent == 1

----------------------------------------------------------------------------
(* Python values.  A str is its sequence of characters.                    *)

None == [t |-> "None"]

Str(s) == [t |-> "str", s |-> s]

\* a value that is neither a str nor a SpatialImage
Other == [t |-> "int", n |-> 0]

IsStr(v) == v.t = "str"

IsVolume(v) == v.t = "vol"

\* a numpy array: its shape and its elements in C (row-major) order
Array(shape, c) == [shape |-> shape, c |-> c]

NVox(shape) == shape[1] * shape[2] * shape[3]

\* element [i, j, k] (0-based) of an array
At(a, i, j, k) == a.c[1 + k + a.shape[3] * (j + a.shape[2] * i)]

\* data.flatten('F'): the elements in column-major order, first index fastest
FlattenF(a) ==
    LET X == a.shape[1]
        Y == a.shape[2]
    IN  [n \in 1..NVox(a.shape) |->
            At(a, (n - 1) % X, ((n - 1) \div X) % Y, (n - 1) \div (X * Y))]

\* np.reshape(buffer, dimensions) in the default row-major order, last index
\* fastest
ReshapeC(buf, shape) == Array(shape, [m \in 1..NVox(shape) |-> buf[m]])

\* np.reshape(buffer, dimensions, 'F'): the array whose element [i, j, k] is
\* the buffer's element i + X*j + X*Y*k
ReshapeF(buf, shape) ==
    LET X == shape[1]
        Y == shape[2]
        Z == shape[3]
    IN  Array(shape,
              [m \in 1..NVox(shape) |->
                  LET i == (m - 1) \div (Y * Z)
                      j == ((m - 1) \div Z) % Y
                      k == (m - 1) % Z
                  IN  buf[1 + i + X * j + X * Y * k]])

RECURSIVE SeqMax(_)
\* np.max / np.nanmax of a non-empty buffer
SeqMax(q) ==
    IF Len(q) = 1 THEN q[1]
    ELSE LET m == SeqMax(Tail(q)) IN IF q[1] > m THEN q[1] ELSE m

\* a nibabel header: voxel sizes, data dtype and display range
Header(zooms, dtype) ==
    [zooms |-> zooms, dtype |-> dtype, cal_min |-> 0, cal_max |-> 0]

\* a nibabel SpatialImage: data, affine (by its axis codes) and header
Volume(data, affine, header) ==
    [t |-> "vol", data |-> data, affine |-> affine, header |-> header]

NoFile == [t |-> "nofile"]

\* a file written by nibabel: the volume it holds and its size in bytes
File(vol) == [t |-> "file", vol |-> vol, size |-> Len(vol.data.c)]

\* os.path.isfile / os.path.exists of a str path
IsFile(fsys, path) == path.s \in DOMAIN fsys /\ fsys[path.s].t = "file"

----------------------------------------------------------------------------
(* The world the io functions act on: the files, the log file, the clock,  *)
(* the history of time_log calls and the io events of the current call.    *)

World(f, l, c, tl, ev) == [fs |-> f, log |-> l, clock |-> c, tl |-> tl, ev |-> ev]

\* an event of the trace: the operation and its arguments
Ev(op, x) == [op |-> op, x |-> x]

\* time.time(): the world after the reading
Tick(w) == [w EXCEPT !.clock = @ + 1]

----------------------------------------------------------------------------
(* time_log, io_volume.py 111-138                                          *)

EmptyDict == [k \in {} |-> {}]

\* json.dump of one value of an entry: None becomes null, a str a JSON
\* string, a number stays a number
ToJson(v) ==
    IF v = None THEN [j |-> "null"]
    ELSE IF IsStr(v) THEN [j |-> "string", s |-> v.s]
    ELSE v

\* json.load of one value of an entry
FromJson(v) ==
    IF v = [j |-> "null"] THEN None
    ELSE IF "j" \in DOMAIN v THEN Str(v.s)
    ELSE v

EntryToJson(e) == [e EXCEPT !.filename = ToJson(@)]

EntryFromJson(e) == [e EXCEPT !.filename = FromJson(@)]

\* json.dump(log, logfile): the document written to the file
JsonDump(log) ==
    [t |-> "file",
     doc |-> [task \in DOMAIN log |->
                [o \in DOMAIN log[task] |->
                   [i \in 1..Len(log[task][o]) |-> EntryToJson(log[task][o][i])]]]]

\* json.load(logfile): the dict read back from the file
JsonLoad(file) ==
    [task \in DOMAIN file.doc |->
       [o \in DOMAIN file.doc[task] |->
          [i \in 1..Len(file.doc[task][o]) |-> EntryFromJson(file.doc[task][o][i])]]]

\* lines 131-135: the entry appended
LogEntry(filename, filesize, start, end) ==
    [filename |-> filename, filesize |-> filesize,
     start |-> start, end |-> end, duration |-> end - start]

\* line 127: the condition under which os.stat(filename) is evaluated
StatsTarget(filename) == filename # None /\ filename # Str(<<>>)

\* time_log(log_file, task_name, op_name, filename, start, end): the world
\* after the call and the exception it raised ("none" when it returned)
TimeLog(w, task_name, op_name, filename, start, end) ==
    LET called == [w EXCEPT !.tl = Append(@, [task |-> task_name, op |-> op_name,
                                              filename |-> filename,
                                              start |-> start, end |-> end])]
        \* 113-115: create the log file if it does not exist
        created == IF called.log = NoFile
                   THEN [called EXCEPT !.log = JsonDump(EmptyDict)]
                   ELSE called
        \* 118-119
        log == JsonLoad(created.log)
        \* 121-125
        log1 == IF task_name \notin DOMAIN log
                THEN log @@ (task_name :> EmptyDict) ELSE log
        log2 == IF op_name \notin DOMAIN log1[task_name]
                THEN [log1 EXCEPT ![task_name] = @ @@ (op_name :> <<>>)] ELSE log1
    IN  IF StatsTarget(filename) /\ ~IsFile(created.fs, filename)
        THEN \* 127: os.stat raises on a path that names no file
             [w |-> created, exc |-> "OSError"]
        ELSE LET filesize == IF StatsTarget(filename)
                             THEN created.fs[filename.s].size ELSE 0
                 log3 == [log2 EXCEPT ![task_name][op_name] =
                             Append(@, LogEntry(filename, filesize, start, end))]
             IN  \* 137-138
                 [w |-> [created EXCEPT !.log = JsonDump(log3)], exc |-> "none"]

----------------------------------------------------------------------------
(* load_volume, io_volume.py 11-61                                         *)

\* lines 57-59: the message of the ValueError
InputVolumeMsg == [text |-> "Input volume must be a path or a SpatialImage"]

\* LoadVolume taking whatever is not a str for an image
LoadVolumeAnyObject(w, volume, caller) ==
    IF IsStr(volume)
    THEN LET start == w.clock
             w1 == Tick(w)
         IN  IF ~IsFile(w1.fs, volume)
             THEN [w |-> w1, exc |-> "IOError", msg |-> <<>>, image |-> None]
             ELSE LET w2 == [w1 EXCEPT !.ev = Append(@, Ev("read", <<volume>>))]
                      logged == TimeLog(Tick(w2), caller, "read", volume, start, w2.clock)
                  IN  [w |-> logged.w, exc |-> logged.exc, msg |-> <<>>,
                       image |-> w2.fs[volume.s].vol]
    ELSE [w |-> w, exc |-> "none", msg |-> <<>>, image |-> volume]

\* load_volume(volume, log_file) called from function `caller`: the world
\* after, the exception raised ("none" when it returned) and the image
LoadVolume(w, volume, caller) ==
    IF IsStr(volume)
    THEN LET start == w.clock
             w1 == Tick(w)
         IN  IF ~IsFile(w1.fs, volume)
             THEN \* 46: open() of a path that names no file
                  [w |-> w1, exc |-> "IOError", msg |-> <<>>, image |-> None]
             ELSE LET w2 == [w1 EXCEPT !.ev = Append(@, Ev("read", <<volume>>))]
                      image == w2.fs[volume.s].vol
                      end == w2.clock
                      w3 == Tick(w2)
                      logged == TimeLog(w3, caller, "read", volume, start, end)
                  IN  [w |-> logged.w, exc |-> logged.exc, msg |-> <<>>, image |-> image]
    ELSE IF IsVolume(volume)
    THEN [w |-> w, exc |-> "none", msg |-> <<>>, image |-> volume]
    ELSE \* 57-59
         [w |-> w, exc |-> "ValueError", msg |-> InputVolumeMsg, image |-> None]

----------------------------------------------------------------------------
(* save_volume, io_volume.py 64-108                                        *)

\* the default of save_volume's dtype parameter
DefaultDtype == Str(<<"float32">>)

\* SaveVolume recording the time only of a save that wrote the file
SaveVolumeLogsWrites(w, filename, volume, dtype, overwrite_file, caller) ==
    LET start == w.clock
        w1 == Tick(w)
    IN  IF dtype # None /\ ~IsVolume(volume)
        THEN [w |-> w1, exc |-> "AttributeError"]
        ELSE LET vol == IF dtype # None THEN [volume EXCEPT !.header.dtype = dtype]
                        ELSE volume
             IN  IF IsFile(w1.fs, filename) /\ ~overwrite_file
                 THEN [w |-> Tick(w1), exc |-> "none"]
                 ELSE LET w2 == IF IsVolume(vol)
                                THEN [w1 EXCEPT !.fs[filename.s] = File(vol),
                                                !.ev = Append(@, Ev("write", <<filename, vol>>))]
                                ELSE w1
                      IN  TimeLog(Tick(w2), caller, "write", filename, start, w2.clock)

\* save_volume(filename, volume, dtype, overwrite_file, log_file) called from
\* function `caller`: the world after and the exception raised
SaveVolume(w, filename, volume, dtype, overwrite_file, caller) ==
    LET start == w.clock
        w1 == Tick(w)
    IN  IF dtype # None /\ ~IsVolume(volume)
        THEN \* 95: set_data_dtype on an object that has no such method
             [w |-> w1, exc |-> "AttributeError"]
        ELSE LET vol == IF dtype # None THEN [volume EXCEPT !.header.dtype = dtype]
                        ELSE volume
                 w2 == IF IsFile(w1.fs, filename) /\ ~overwrite_file
                       THEN w1                       \* 96-98: file not saved
                       ELSE IF IsVolume(vol)
                       THEN [w1 EXCEPT !.fs[filename.s] = File(vol),
                                       !.ev = Append(@, Ev("write", <<filename, vol>>))]
                       ELSE w1                       \* 103-104: caught
                 end == w2.clock
                 w3 == Tick(w2)
             IN  TimeLog(w3, caller, "write", filename, start, end)

----------------------------------------------------------------------------
(* The environment: the values callers pass and the files that exist.      *)

RAS == <<"R", "A", "S">>

Float32 == Str(<<"float32">>)

Zooms == <<1, 1, 1>>

\* the volume held by the file at PathA
VolA == Volume(Array(<<2, 2, 1>>, <<1, 2, 3, 4>>), RAS, Header(Zooms, Float32))

\* the volume held by the file at PathD
VolD == Volume(Array(<<1, 2, 2>>, <<4, 3, 2, 1>>), RAS, Header(Zooms, Float32))

\* a volume the caller holds in memory
VolM == Volume(Array(<<2, 1, 2>>, <<5, 6, 7, 8>>), RAS, Header(Zooms, Float32))

\* the volume held by an output file left by an earlier run
VolOld == Volume(Array(<<1, 1, 1>>, <<9>>), RAS, Header(Zooms, Float32))

\* the path "abcd" and the path "d", its character at index 3
PathA == <<"a", "b", "c", "d">>

PathD == <<"d">>

\* what a caller passes as an image
Inputs == {Str(PathA), VolM, Other}

\* the externals' error, as the engine raises it
EngineError == "JavaError"

\* the engine's result buffer behind one getter, for n voxels: a black box,
\* here a buffer that tells the getters apart
EngineBuffer(getter, seed, n) == [i \in 1..n |-> seed + getter * n + i]

EngineSeeds == {0, 1}

\* utils._fname_4saving joined to utils._output_dir_4saving: the output path
\* is the base name, the fixed suffix of the output and the extension
Fname4Saving(suffix) == Str(<<"out/sub_", suffix, ".nii.gz">>)

----------------------------------------------------------------------------
(* One top-level call: its frame and how it ends.                          *)

NoOutcome == [kind |-> "none"]

Cur == World(fs, logfile, clock, tlcalls, trace)

Commit(w) ==
    /\ fs' = w.fs
    /\ logfile' = w.log
    /\ clock' = w.clock
    /\ tlcalls' = w.tl
    /\ trace' = w.ev

Raise(e) == pc' = "done" /\ outcome' = [kind |-> "raise", exc |-> e, msg |-> <<>>]

\* raise e with the arguments the error carries
RaiseMsg(e, msg) == pc' = "done" /\ outcome' = [kind |-> "raise", exc |-> e, msg |-> msg]

Return(v) == pc' = "done" /\ outcome' = [kind |-> "return", value |-> v]

\* a behaviour is one top-level call, from a state an earlier call or the
\* user may have left
CanCall(f) == pc = "idle" /\ fn = f

----------------------------------------------------------------------------
(* cruise_cortex_extraction, cruise_cortex_extraction.py 12-316            *)

CruiseTask == "cruise_cortex_extraction"

\* the eight outputs in the order the code retrieves and saves them: the key
\* of the result, the file suffix and the engine getter
CruiseOutputs ==
    << [name |-> "cortex",    suffix |-> "cruise-cortex", getter |-> "getCortexMask"],
       [name |-> "gwb",       suffix |-> "cruise-gwb",    getter |-> "getWMGMLevelset"],
       [name |-> "cgb",       suffix |-> "cruise-cgb",    getter |-> "getGMCSFLevelset"],
       [name |-> "avg",       suffix |-> "cruise-avg",    getter |-> "getCentralLevelset"],
       [name |-> "thickness", suffix |-> "cruise-thick",  getter |-> "getCorticalThickness"],
       [name |-> "pwm",       suffix |-> "cruise-pwm",    getter |-> "getCerebralWMprobability"],
       [name |-> "pgm",       suffix |-> "cruise-pgm",    getter |-> "getCorticalGMprobability"],
       [name |-> "pcsf",      suffix |-> "cruise-pcsf",   getter |-> "getSulcalCSFprobability"] >>

NCruise == Len(CruiseOutputs)

CruiseNames == {CruiseOutputs[i].name : i \in 1..NCruise}

\* the place of the output called n in CruiseOutputs
CruiseIndex(n) == CHOOSE i \in 1..NCruise : CruiseOutputs[i].name = n

\* lines 126-164: the derived file of each output
CruiseFiles == [n \in CruiseNames |-> Fname4Saving(CruiseOutputs[CruiseIndex(n)].suffix)]

\* CruiseSkip with the test of overwrite turned round
CruiseSkipWhenOverwrite(save_data, overwrite, fsys) ==
    /\ save_data
    /\ overwrite = TRUE
    /\ \A n \in CruiseNames : IsFile(fsys, CruiseFiles[n])

\* CruiseSkip with the test of the last file left out
CruiseSkipSeven(save_data, overwrite, fsys) ==
    /\ save_data
    /\ overwrite = FALSE
    /\ \A n \in CruiseNames \ {"pcsf"} : IsFile(fsys, CruiseFiles[n])

\* lines 165-173: the condition of the cache short-circuit
CruiseSkip(save_data, overwrite, fsys) ==
    /\ save_data
    /\ overwrite = FALSE
    /\ \A n \in CruiseNames : IsFile(fsys, CruiseFiles[n])

\* line 117, and the caller's choice of save_data and overwrite
CruiseCall ==
    /\ CanCall("cruise")
    /\ \E save_data \in BOOLEAN, overwrite \in BOOLEAN :
          args' = [save_data |-> save_data, overwrite |-> overwrite]
    /\ pc' = "c_cache"
    /\ fs0' = fs
    /\ loc' = [start |-> clock]
    /\ clock' = clock + 1
    /\ trace' = <<>>
    /\ outcome' = NoOutcome
    /\ UNCHANGED <<fs, logfile, vm, fn, tlcalls>>

\* lines 123-184
CruiseCache ==
    /\ fn = "cruise" /\ pc = "c_cache"
    /\ IF CruiseSkip(args.save_data, args.overwrite, fs)
       THEN Return(CruiseFiles)
       ELSE pc' = "c_vm" /\ UNCHANGED outcome
    /\ UNCHANGED <<fs, logfile, clock, vm, fs0, fn, args, loc, trace, tlcalls>>

\* InitVM starting the runtime anew on every call
InitVMRestart(w, running) ==
    [w EXCEPT !.ev = Append(@, Ev("initVM", <<"started">>))]

\* lines 187-191: initVM raises ValueError when the runtime already runs,
\* and the error is passed over
InitVM(w, running) ==
    [w EXCEPT !.ev = Append(@, Ev("initVM", <<IF running THEN "ValueError" ELSE "started">>))]

\* lines 186-193
CruiseInitVM ==
    /\ fn = "cruise" /\ pc = "c_vm"
    /\ trace' = Append(InitVM(Cur, vm).ev, Ev("CortexOptimCRUISE", <<>>))
    /\ vm' = TRUE
    /\ pc' = "c_params"
    /\ UNCHANGED <<fs, logfile, clock, fs0, fn, args, loc, outcome, tlcalls>>

\* lines 196-203
CruiseSetters ==
    << "setDataWeight", "setRegularizationWeight", "setMaxIterations",
       "setNormalizeProbabilities", "setCorrectForWMGMpartialVoluming",
       "setWMdropoffDistance", "setTopology", "setTopologyLUTdirectory" >>

CruiseSetParams ==
    /\ fn = "cruise" /\ pc = "c_params"
    /\ trace' = trace \o [i \in 1..Len(CruiseSetters) |-> Ev(CruiseSetters[i], <<>>)]
    /\ pc' = "c_init"
    /\ UNCHANGED <<fs, logfile, clock, vm, fs0, fn, args, loc, outcome, tlcalls>>

\* lines 206-215: the first image gives dimensions and resolution
CruiseLoadInit ==
    /\ fn = "cruise" /\ pc = "c_init"
    /\ \E init_image \in Inputs :
          LET r == LoadVolume(Cur, init_image, CruiseTask)
              init == r.image
              dimensions == init.data.shape
              resolution == init.header.zooms
          IN  /\ args' = args @@ [init_image |-> init_image]
              /\ IF r.exc # "none"
                 THEN Commit(r.w) /\ RaiseMsg(r.exc, r.msg) /\ UNCHANGED loc
                 ELSE /\ Commit([r.w EXCEPT !.ev = @ \o
                            << Ev("setDimensions", dimensions),
                               Ev("setResolutions", resolution),
                               Ev("importInitialWMSegmentationImage",
                                  FlattenF(init.data)) >>])
                      /\ loc' = loc @@ [dimensions |-> dimensions,
                                        affine |-> init.affine,
                                        header |-> init.header]
                      /\ pc' = "c_wm"
                      /\ UNCHANGED outcome
    /\ UNCHANGED <<vm, fs0, fn>>

\* one probability image: load it and hand its column-major flattening to
\* the engine through `setter`
CruiseLoadProb(at, arg, setter, next) ==
    /\ fn = "cruise" /\ pc = at
    /\ \E image \in Inputs :
          LET r == LoadVolume(Cur, image, CruiseTask)
          IN  /\ args' = args @@ (arg :> image)
              /\ IF r.exc # "none"
                 THEN Commit(r.w) /\ RaiseMsg(r.exc, r.msg)
                 ELSE /\ Commit([r.w EXCEPT !.ev =
                                   Append(@, Ev(setter, FlattenF(r.image.data)))])
                      /\ pc' = next
                      /\ UNCHANGED outcome
    /\ UNCHANGED <<vm, fs0, fn, loc>>

\* lines 217-219
CruiseLoadWM == CruiseLoadProb("c_wm", "wm_image", "setFilledWMProbabilityImage", "c_gm")

\* lines 221-223
CruiseLoadGM == CruiseLoadProb("c_gm", "gm_image", "setGMProbabilityImage", "c_csf")

\* lines 225-227
CruiseLoadCSF == CruiseLoadProb("c_csf", "csf_image", "setCSFandBGProbabilityImage", "c_vd")

\* lines 229-232, vd_image given
CruiseLoadVD == CruiseLoadProb("c_vd", "vd_image", "setVeinsAndDuraProbabilityImage", "c_exec")

\* line 229, vd_image is None
CruiseNoVD ==
    /\ fn = "cruise" /\ pc = "c_vd"
    /\ args' = args @@ [vd_image |-> None]
    /\ pc' = "c_exec"
    /\ UNCHANGED <<fs, logfile, clock, vm, fs0, fn, loc, trace, outcome, tlcalls>>

\* the volumes built from the engine's buffers, one per output: reshaped in
\* column-major order, the header's display range set to the maximum
ResultVolume(getter, seed, dimensions, affine, header) ==
    LET buf == EngineBuffer(getter, seed, NVox(dimensions))
    IN  Volume(ReshapeF(buf, dimensions), affine,
               [header EXCEPT !.cal_min = SeqMax(buf), !.cal_max = SeqMax(buf)])

\* CruiseReraise without the raise: the return of line 243 alone
CruiseSwallow(e) == Return(None)

\* lines 238-243: the engine's error is printed and raised again
CruiseReraise(e) == Raise(e)

\* lines 235-295: execute, and on success the eight getters and volumes
CruiseExecute ==
    /\ fn = "cruise" /\ pc = "c_exec"
    /\ \/ /\ trace' = Append(trace, Ev("execute", <<EngineError>>))
          /\ CruiseReraise(EngineError)
          /\ UNCHANGED loc
       \/ \E seed \in EngineSeeds :
            /\ trace' = Append(trace, Ev("execute", <<"ok">>))
                            \o [i \in 1..NCruise |-> Ev(CruiseOutputs[i].getter, <<>>)]
            /\ loc' = loc @@ [out |-> [i \in 1..NCruise |->
                                 ResultVolume(i, seed, loc.dimensions,
                                              loc.affine, loc.header)],
                              i |-> 1]
            /\ pc' = "c_save"
            /\ UNCHANGED outcome
    /\ UNCHANGED <<fs, logfile, clock, vm, fs0, fn, args, tlcalls>>

\* lines 298-305: the next of the eight save_volume calls
CruiseSave ==
    /\ fn = "cruise" /\ pc = "c_save"
    /\ args.save_data /\ loc.i <= NCruise
    /\ LET o == CruiseOutputs[loc.i]
           r == SaveVolume(Cur, CruiseFiles[o.name], loc.out[loc.i],
                           DefaultDtype, TRUE, CruiseTask)
       IN  /\ Commit(r.w)
           /\ IF r.exc # "none"
              THEN Raise(r.exc) /\ UNCHANGED loc
              ELSE loc' = [loc EXCEPT !.i = @ + 1] /\ UNCHANGED <<pc, outcome>>
    /\ UNCHANGED <<vm, fs0, fn, args>>

\* CruiseFinish taking the start of the makespan entry when the saves are
\* over, not when the call began
CruiseFinishLateStart ==
    /\ fn = "cruise" /\ pc = "c_save"
    /\ ~args.save_data \/ loc.i > NCruise
    /\ LET result == IF args.save_data
                     THEN CruiseFiles
                     ELSE [n \in CruiseNames |-> loc.out[CruiseIndex(n)]]
           end == clock
           r == TimeLog(Tick(Cur), CruiseTask, "makespan", None, end, end)
       IN  /\ Commit(r.w)
           /\ IF r.exc # "none" THEN Raise(r.exc) ELSE Return(result)
    /\ UNCHANGED <<vm, fs0, fn, args, loc>>

\* lines 307-316: the result, the makespan entry and the return
CruiseFinish ==
    /\ fn = "cruise" /\ pc = "c_save"
    /\ ~args.save_data \/ loc.i > NCruise
    /\ LET result == IF args.save_data
                     THEN CruiseFiles
                     ELSE [n \in CruiseNames |-> loc.out[CruiseIndex(n)]]
           end == clock
           r == TimeLog(Tick(Cur), CruiseTask, "makespan", None, loc.start, end)
       IN  /\ Commit(r.w)
           /\ IF r.exc # "none" THEN Raise(r.exc) ELSE Return(result)
    /\ UNCHANGED <<vm, fs0, fn, args, loc>>

----------------------------------------------------------------------------
(* _get_mgdm_orientation, mgdm_segmentation.py 15-44                       *)

InCode(letter, orientation) == \E i \in 1..Len(orientation) : orientation[i] = letter

\* SliceOrder reading the first axis code instead of the last
SliceOrderFirst(orientation) ==
    LET first == orientation[1]
    IN  IF first = "I" \/ first = "S" THEN "AXIAL"
        ELSE IF first = "L" \/ first = "R" THEN "SAGITTAL"
        ELSE "CORONAL"

\* lines 23-28: the slice order, from the last axis code
SliceOrder(orientation) ==
    LET last == orientation[Len(orientation)]
    IN  IF last = "I" \/ last = "S" THEN "AXIAL"
        ELSE IF last = "L" \/ last = "R" THEN "SAGITTAL"
        ELSE "CORONAL"

\* Flip looking for the letters of its pair on the axis the pair usually
\* has (L/R first, A/P second, I/S third) instead of anywhere in the code
FlipOwnAxis(orientation, first, v1, second, v2) ==
    LET axis == IF first = "L" THEN 1 ELSE IF first = "A" THEN 2 ELSE 3
    IN  IF orientation[axis] = first THEN v1
        ELSE IF InCode(second, orientation) THEN v2
        ELSE "unbound"

\* Flip with a plain else for the second letter of the pair
FlipElse(orientation, first, v1, second, v2) ==
    IF InCode(first, orientation) THEN v1 ELSE v2

\* lines 31-42: one flip value, "unbound" when neither letter is in the code
Flip(orientation, first, v1, second, v2) ==
    IF InCode(first, orientation) THEN v1
    ELSE IF InCode(second, orientation) THEN v2
    ELSE "unbound"

\* the axis codes nb.aff2axcodes gives for the affine, the error raised
\* ("none" when it returns) and the four values returned
GetMgdmOrientation(orientation) ==
    LET LR == Flip(orientation, "L", "R2L", "R", "L2R")
        AP == Flip(orientation, "A", "P2A", "P", "A2P")
        IS == Flip(orientation, "I", "S2I", "S", "I2S")
    IN  IF "unbound" \in {LR, AP, IS}
        THEN \* 44: a local variable read before assignment
             [exc |-> "UnboundLocalError", value |-> <<>>]
        ELSE [exc |-> "none", value |-> <<SliceOrder(orientation), LR, AP, IS>>]

----------------------------------------------------------------------------
(* _get_mgdm_intensity_priors, mgdm_segmentation.py 47-60                  *)
(* An atlas file is its sequence of lines, a line its sequence of          *)
(* whitespace-delimited tokens.                                            *)

\* "Structures:" in line
HasStructures(line) == \E i \in 1..Len(line) : line[i] = "Structures:"

\* "Intensity Prior:" in line
HasPrior(line) ==
    \E i \in 1..Len(line) - 1 : line[i] = "Intensity" /\ line[i + 1] = "Prior:"

\* the tokens int() accepts
IntTokens == {"0", "1", "2", "3"}

\* line 57: int(line.split()[1]), by the error it raises
StructuresError(line) ==
    IF Len(line) < 2 THEN "IndexError"
    ELSE IF line[2] \notin IntTokens THEN "ValueError"
    ELSE "none"

RECURSIVE ScanAtlas(_, _)
\* lines 54-59 from the lines still to read and the priors found so far
ScanAtlas(lines, priors) ==
    IF lines = <<>> THEN [exc |-> "none", priors |-> priors]
    ELSE LET line == Head(lines)
         IN  IF HasStructures(line) /\ StructuresError(line) # "none"
             THEN [exc |-> StructuresError(line), priors |-> priors]
             ELSE ScanAtlas(Tail(lines),
                            IF HasPrior(line)
                            THEN Append(priors, Str(<<line[Len(line)]>>))
                            ELSE priors)

GetMgdmIntensityPriors(atlas) == ScanAtlas(atlas, <<>>)

----------------------------------------------------------------------------
(* mgdm_segmentation, mgdm_segmentation.py 63-302                          *)

MgdmTask == "mgdm_segmentation"

\* the atlas files a caller names
AtlasStd ==
    << <<"Structures:", "2">>,
       <<"Intensity", "Prior:", "T1">>,
       <<"Intensity", "Prior:", "T2">> >>

AtlasNoPriors == << <<"Structures:", "2">> >>

Atlases == {AtlasStd, AtlasNoPriors}

\* what a caller passes as a contrast image and as a contrast type
MgdmImages == {None, Str(PathA), VolM}

Ctypes == {None, Str(<<"T1">>), Str(<<"PD">>)}

\* the four outputs in the order the code retrieves and saves them
MgdmOutputs ==
    << [name |-> "segmentation", suffix |-> "mgdm_seg",  getter |-> "getSegmentedBrainImage"],
       [name |-> "labels",       suffix |-> "mgmd_lbls", getter |-> "getPosteriorMaximumLabels4D"],
       [name |-> "memberships",  suffix |-> "mgdm_mems", getter |-> "getPosteriorMaximumMemberships4D"],
       [name |-> "distance",     suffix |-> "mgdm_dist", getter |-> "getLevelsetBoundaryImage"] >>

NMgdm == Len(MgdmOutputs)

MgdmNames == {MgdmOutputs[i].name : i \in 1..NMgdm}

\* the place of the output called n in MgdmOutputs
MgdmIndex(n) == CHOOSE i \in 1..NMgdm : MgdmOutputs[i].name = n

\* lines 280-294: the derived file of each output
MgdmFiles == [n \in MgdmNames |-> Fname4Saving(MgdmOutputs[MgdmIndex(n)].suffix)]

\* the names of the channel's two parameters
ImageArg(k) == <<"contrast_image1", "contrast_image2", "contrast_image3", "contrast_image4">>[k]

TypeArg(k) == <<"contrast_type1", "contrast_type2", "contrast_type3", "contrast_type4">>[k]

InSeq(v, q) == \E i \in 1..Len(q) : q[i] = v

\* the caller's choice of atlas_file
MgdmCall ==
    /\ CanCall("mgdm")
    /\ \E atlas_file \in Atlases : args' = [atlas_file |-> atlas_file]
    /\ pc' = "m_priors"
    /\ fs0' = fs
    /\ loc' = [idx |-> 0]
    /\ trace' = <<>>
    /\ outcome' = NoOutcome
    /\ UNCHANGED <<fs, logfile, clock, vm, fn, tlcalls>>

\* MgdmPriors with the JVM started and the engine instance created before
\* the sanity check instead of after it
MgdmPriorsAfterEngine ==
    /\ fn = "mgdm" /\ pc = "m_priors"
    /\ LET r == GetMgdmIntensityPriors(args.atlas_file)
       IN  IF r.exc # "none"
           THEN Raise(r.exc) /\ UNCHANGED loc
           ELSE /\ loc' = loc @@ [mgdm_intensity_priors |-> r.priors]
                /\ pc' = "m_check"
                /\ UNCHANGED outcome
    /\ trace' = Append(InitVM(Cur, vm).ev, Ev("BrainMgdmMultiSegmentation2", <<>>))
    /\ UNCHANGED <<fs, logfile, clock, vm, fs0, fn, args, tlcalls>>

\* line 164
MgdmPriors ==
    /\ fn = "mgdm" /\ pc = "m_priors"
    /\ LET r == GetMgdmIntensityPriors(args.atlas_file)
       IN  IF r.exc # "none"
           THEN Raise(r.exc) /\ UNCHANGED loc
           ELSE /\ loc' = loc @@ [mgdm_intensity_priors |-> r.priors]
                /\ pc' = "m_check"
                /\ UNCHANGED outcome
    /\ UNCHANGED <<fs, logfile, clock, vm, fs0, fn, args, trace, tlcalls>>

\* CheckContrast naming the channel by idx, not idx + 1
CheckContrastZeroBased(idx, image, ctype, priors) ==
    IF ctype = None /\ image # None
    THEN [text |-> "specify contrast_type", index |-> idx]
    ELSE IF ctype # None /\ ~InSeq(ctype, priors)
    THEN [text |-> "not a valid contrast type", ctype |-> ctype,
          index |-> idx, choices |-> priors]
    ELSE [text |-> "ok"]

\* CheckContrast testing the type of a channel only when its image is given
CheckContrastOnlyWithImage(idx, image, ctype, priors) ==
    IF ctype = None /\ image # None
    THEN [text |-> "specify contrast_type", index |-> idx + 1]
    ELSE IF image # None /\ ctype # None /\ ~InSeq(ctype, priors)
    THEN [text |-> "not a valid contrast type", ctype |-> ctype,
          index |-> idx + 1, choices |-> priors]
    ELSE [text |-> "ok"]

\* CheckContrast without the test of line 171: an image may come without a
\* type
CheckContrastTypeOnly(idx, image, ctype, priors) ==
    IF ctype # None /\ ~InSeq(ctype, priors)
    THEN [text |-> "not a valid contrast type", ctype |-> ctype,
          index |-> idx + 1, choices |-> priors]
    ELSE [text |-> "ok"]

\* lines 171-180: the arguments of the ValueError one turn of the sanity
\* check raises, "ok" when it raises nothing
CheckContrast(idx, image, ctype, priors) ==
    IF ctype = None /\ image # None
    THEN [text |-> "specify contrast_type", index |-> idx + 1]
    ELSE IF ctype # None /\ ~InSeq(ctype, priors)
    THEN [text |-> "not a valid contrast type", ctype |-> ctype,
          index |-> idx + 1, choices |-> priors]
    ELSE [text |-> "ok"]

\* lines 170-180: one turn of the loop, on the channel idx + 1
MgdmCheck ==
    /\ fn = "mgdm" /\ pc = "m_check"
    /\ \E image \in MgdmImages, ctype \in Ctypes :
          LET k == loc.idx + 1
              err == CheckContrast(loc.idx, image, ctype, loc.mgdm_intensity_priors)
          IN  /\ args' = args @@ (ImageArg(k) :> image) @@ (TypeArg(k) :> ctype)
              /\ IF err.text # "ok"
                 THEN RaiseMsg("ValueError", err) /\ UNCHANGED loc
                 ELSE IF k < 4
                 THEN loc' = [loc EXCEPT !.idx = @ + 1] /\ UNCHANGED <<pc, outcome>>
                 ELSE pc' = "m_vm" /\ UNCHANGED <<loc, outcome>>
    /\ UNCHANGED <<fs, logfile, clock, vm, fs0, fn, trace, tlcalls>>

\* lines 183-188
MgdmInitVM ==
    /\ fn = "mgdm" /\ pc = "m_vm"
    /\ trace' = Append(InitVM(Cur, vm).ev, Ev("BrainMgdmMultiSegmentation2", <<>>))
    /\ vm' = TRUE
    /\ pc' = "m_params"
    /\ UNCHANGED <<fs, logfile, clock, fs0, fn, args, loc, outcome, tlcalls>>

\* lines 191-198
MgdmSetters ==
    << "setAtlasFile", "setTopologyLUTdirectory", "setOutputImages",
       "setAdjustIntensityPriors", "setComputePosterior",
       "setDiffuseProbabilities", "setSteps", "setTopology" >>

MgdmSetParams ==
    /\ fn = "mgdm" /\ pc = "m_params"
    /\ trace' = trace \o [i \in 1..Len(MgdmSetters) |-> Ev(MgdmSetters[i], <<>>)]
    /\ pc' = "m_load1"
    /\ UNCHANGED <<fs, logfile, clock, vm, fs0, fn, args, loc, outcome, tlcalls>>

\* lines 201-218
MgdmLoad1 ==
    /\ fn = "mgdm" /\ pc = "m_load1"
    /\ LET r == LoadVolume(Cur, args.contrast_image1, MgdmTask)
           img == r.image
           dimensions == img.data.shape
           o == GetMgdmOrientation(img.affine)
       IN  IF r.exc # "none"
           THEN Commit(r.w) /\ RaiseMsg(r.exc, r.msg) /\ UNCHANGED loc
           ELSE IF o.exc # "none"
           THEN /\ Commit([r.w EXCEPT !.ev = @ \o
                      << Ev("setDimensions", dimensions),
                         Ev("setResolutions", img.header.zooms) >>])
                /\ Raise(o.exc) /\ UNCHANGED loc
           ELSE /\ Commit([r.w EXCEPT !.ev = @ \o
                      << Ev("setDimensions", dimensions),
                         Ev("setResolutions", img.header.zooms),
                         Ev("setOrientations", o.value),
                         Ev("setContrastImage1", FlattenF(img.data)),
                         Ev("setContrastType1", <<args.contrast_type1>>) >>])
                /\ loc' = loc @@ [dimensions |-> dimensions, affine |-> img.affine,
                                  header |-> img.header]
                /\ pc' = "m_load2"
                /\ UNCHANGED outcome
    /\ UNCHANGED <<vm, fs0, fn, args>>

\* Python's v[i]: the error raised ("none" when a value comes back) and the
\* value; a str gives its character at i, a SpatialImage or a number raises
Subscript(v, i) ==
    IF IsStr(v)
    THEN IF i < Len(v.s) THEN [exc |-> "none", value |-> Str(<<v.s[i + 1]>>)]
         ELSE [exc |-> "IndexError", value |-> None]
    ELSE [exc |-> "TypeError", value |-> None]

ImageSetter(k) == <<"setContrastImage1", "setContrastImage2", "setContrastImage3", "setContrastImage4">>[k]

TypeSetter(k) == <<"setContrastType1", "setContrastType2", "setContrastType3", "setContrastType4">>[k]

\* what the code loads for channel k >= 2: contrast_imagek[idx], with idx
\* left by the loop of the sanity check
LoadedArg(image, idx) == Subscript(image, idx)

\* MgdmLoadMore without the nesting: an absent channel k is passed over and
\* the channels after it are still considered
MgdmLoadMoreFlat(k, at, next) ==
    /\ fn = "mgdm" /\ pc = at
    /\ IF args[ImageArg(k)] = None
       THEN pc' = next /\ UNCHANGED <<fs, logfile, clock, tlcalls, trace, outcome>>
       ELSE LET s == LoadedArg(args[ImageArg(k)], loc.idx)
                r == LoadVolume(Cur, s.value, MgdmTask)
            IN  IF s.exc # "none"
                THEN Raise(s.exc) /\ UNCHANGED <<fs, logfile, clock, tlcalls, trace>>
                ELSE IF r.exc # "none"
                THEN Commit(r.w) /\ RaiseMsg(r.exc, r.msg)
                ELSE /\ Commit([r.w EXCEPT !.ev = @ \o
                           << Ev(ImageSetter(k), FlattenF(r.image.data)),
                              Ev(TypeSetter(k), <<args[TypeArg(k)]>>) >>])
                     /\ pc' = next
                     /\ UNCHANGED outcome
    /\ UNCHANGED <<vm, fs0, fn, args, loc>>

\* lines 221-237: channel k >= 2, entered only when channel k - 1 was given
MgdmLoadMore(k, at, next) ==
    /\ fn = "mgdm" /\ pc = at
    /\ IF args[ImageArg(k)] = None
       THEN pc' = "m_exec" /\ UNCHANGED <<fs, logfile, clock, tlcalls, trace, outcome>>
       ELSE LET s == LoadedArg(args[ImageArg(k)], loc.idx)
                r == LoadVolume(Cur, s.value, MgdmTask)
            IN  IF s.exc # "none"
                THEN Raise(s.exc) /\ UNCHANGED <<fs, logfile, clock, tlcalls, trace>>
                ELSE IF r.exc # "none"
                THEN Commit(r.w) /\ RaiseMsg(r.exc, r.msg)
                ELSE /\ Commit([r.w EXCEPT !.ev = @ \o
                           << Ev(ImageSetter(k), FlattenF(r.image.data)),
                              Ev(TypeSetter(k), <<args[TypeArg(k)]>>) >>])
                     /\ pc' = next
                     /\ UNCHANGED outcome
    /\ UNCHANGED <<vm, fs0, fn, args, loc>>

\* lines 221-225
MgdmLoad2 == MgdmLoadMore(2, "m_load2", "m_load3")

\* lines 227-231
MgdmLoad3 == MgdmLoadMore(3, "m_load3", "m_load4")

\* lines 233-237
MgdmLoad4 == MgdmLoadMore(4, "m_load4", "m_exec")

\* line 263-273: an output volume, the header's display maximum recomputed
MgdmVolume(getter, seed, dimensions, affine, header) ==
    LET buf == EngineBuffer(getter, seed, NVox(dimensions))
    IN  Volume(ReshapeF(buf, dimensions), affine,
               [header EXCEPT !.cal_max = SeqMax(buf)])

\* lines 244-249: the engine's error is printed and raised again
MgdmReraise(e) == Raise(e)

\* lines 240-273: execute, and on success the four getters and volumes
MgdmExecute ==
    /\ fn = "mgdm" /\ pc = "m_exec"
    /\ \/ /\ trace' = Append(trace, Ev("execute", <<EngineError>>))
          /\ MgdmReraise(EngineError)
          /\ UNCHANGED loc
       \/ \E seed \in EngineSeeds :
            /\ trace' = Append(trace, Ev("execute", <<"ok">>))
                            \o [i \in 1..NMgdm |-> Ev(MgdmOutputs[i].getter, <<>>)]
            /\ loc' = loc @@ [out |-> [i \in 1..NMgdm |->
                                 MgdmVolume(i, seed, loc.dimensions,
                                            loc.affine, loc.header)],
                              i |-> 1]
            /\ pc' = "m_built"
            /\ UNCHANGED outcome
    /\ UNCHANGED <<fs, logfile, clock, vm, fs0, fn, args, tlcalls>>

\* line 275: the caller's choice of save_data, read here first
MgdmSaveData ==
    /\ fn = "mgdm" /\ pc = "m_built"
    /\ \E save_data \in BOOLEAN : args' = args @@ [save_data |-> save_data]
    /\ pc' = "m_save"
    /\ UNCHANGED <<fs, logfile, clock, vm, fs0, fn, loc, trace, outcome, tlcalls>>

\* lines 296-299: the names the four save_volume calls read: the last call
\* reads levels_file and levels, which no line of the function assigns
MgdmSaveDefined(i) == i < NMgdm

\* lines 275-299: the next save_volume call
MgdmSave ==
    /\ fn = "mgdm" /\ pc = "m_save"
    /\ args.save_data /\ loc.i <= NMgdm
    /\ IF ~MgdmSaveDefined(loc.i)
       THEN Raise("NameError") /\ UNCHANGED <<fs, logfile, clock, tlcalls, trace, loc>>
       ELSE LET o == MgdmOutputs[loc.i]
                r == SaveVolume(Cur, MgdmFiles[o.name], loc.out[loc.i],
                                DefaultDtype, TRUE, MgdmTask)
            IN  /\ Commit(r.w)
                /\ IF r.exc # "none"
                   THEN Raise(r.exc) /\ UNCHANGED loc
                   ELSE loc' = [loc EXCEPT !.i = @ + 1] /\ UNCHANGED <<pc, outcome>>
    /\ UNCHANGED <<vm, fs0, fn, args>>

\* lines 301-302: the dict of the four volumes, whatever save_data is
MgdmResult(save_data, out) ==
    [n \in MgdmNames |-> out[MgdmIndex(n)]]

MgdmReturn ==
    /\ fn = "mgdm" /\ pc = "m_save"
    /\ ~args.save_data \/ loc.i > NMgdm
    /\ Return(MgdmResult(args.save_data, loc.out))
    /\ UNCHANGED <<fs, logfile, clock, vm, fs0, fn, args, loc, trace, tlcalls>>

----------------------------------------------------------------------------
(* The specification of the orchestrators.                                 *)

CruisePaths == {CruiseFiles[n].s : n \in CruiseNames}

MgdmPaths == {MgdmFiles[n].s : n \in MgdmNames}

AllPaths == {PathA, PathD} \cup CruisePaths \cup MgdmPaths

\* the sets of CRUISE output files an earlier run may have left: none, or
\* all but at most MaxAbsent of them
ExistingSets ==
    {{}} \cup {E \in SUBSET CruisePaths : Cardinality(CruisePaths \ E) <= MaxAbsent}

\* the file systems a call of cruise_cortex_extraction may start in: the
\* input file there or not, the output files of E there
CruiseFs ==
    {[p \in AllPaths |->
        IF p = PathA THEN a
        ELSE IF p \in E THEN File(VolOld)
        ELSE NoFile] :
     a \in {NoFile, File(VolA)}, E \in ExistingSets}

\* the file systems a call of mgdm_segmentation may start in: each of the
\* two input files there or not
MgdmFs ==
    {[p \in AllPaths |->
        IF p = PathA THEN a
        ELSE IF p = PathD THEN d
        ELSE NoFile] :
     a \in {NoFile, File(VolA)}, d \in {NoFile, File(VolD)}}

Init ==
    /\ \/ fn = "cruise" /\ fs \in CruiseFs
       \/ fn = "mgdm" /\ fs \in MgdmFs
    /\ logfile = NoFile
    /\ clock = 0
    /\ vm \in BOOLEAN
    /\ pc = "idle"
    /\ args = <<>>
    /\ loc = <<>>
    /\ trace = <<>>
    /\ outcome = NoOutcome
    /\ tlcalls = <<>>
    /\ fs0 = fs

Next ==
    \/ CruiseCall \/ CruiseCache \/ CruiseInitVM \/ CruiseSetParams
    \/ CruiseLoadInit \/ CruiseLoadWM \/ CruiseLoadGM \/ CruiseLoadCSF
    \/ CruiseLoadVD \/ CruiseNoVD \/ CruiseExecute \/ CruiseSave \/ CruiseFinish
    \/ MgdmCall \/ MgdmPriors \/ MgdmCheck \/ MgdmInitVM \/ MgdmSetParams
    \/ MgdmLoad1 \/ MgdmLoad2 \/ MgdmLoad3 \/ MgdmLoad4
    \/ MgdmExecute \/ MgdmSaveData \/ MgdmSave \/ MgdmReturn

Spec == Init /\ [][Next]_vars

----------------------------------------------------------------------------
(* The specification of VolumeIO called directly: a sequence of calls, one *)
(* after the other and on one log file, of time_log, of load_volume or of  *)
(* save_volume.                                                            *)

MaxLogCalls == 3

LogTasks == {"load_task", "save_task"}

LogOps == {"read", "write"}

\* the target paths of a call: none, the empty string, two paths
LogTargets == {None, Str(<<>>), Str(PathA), Str(PathD)}

\* the file systems the calls may run in: each of the two targets there or not
IoFs ==
    {[p \in AllPaths |->
        IF p = PathA THEN a
        ELSE IF p = PathD THEN d
        ELSE NoFile] :
     a \in {NoFile, File(VolA)}, d \in {NoFile, File(VolOld)}}

\* how many calls of load_volume, or of save_volume, a behaviour makes
MaxIoCalls == 2

\* the functions of io_volume.py a behaviour calls
IoFunctions == {"time_log", "load_volume", "save_volume"}

\* what a caller hands to load_volume
LoadInputs == {Str(PathA), Str(PathD), VolM, Other}

\* what a caller hands to save_volume as filename, volume and dtype
SaveTargets == {Str(PathA), Str(PathD)}

SaveInputs == {VolM, Other}

Dtypes == {None, DefaultDtype}

\* loc holds the calls of time_log that returned, the number of calls of
\* load_volume or save_volume made, and the log file as the last of them
\* found it
InitIO ==
    /\ fn \in IoFunctions
    /\ fs \in IoFs
    /\ logfile = NoFile
    /\ clock = 0
    /\ vm = FALSE
    /\ pc = "idle"
    /\ args = <<>>
    /\ loc = [returned |-> <<>>, ncalls |-> 0, log0 |-> NoFile, ev0 |-> <<>>]
    /\ trace = <<>>
    /\ outcome = NoOutcome
    /\ tlcalls = <<>>
    /\ fs0 = fs

\* one call time_log(log_file, task_name, op_name, filename, start, end) of
\* a caller that took start before and end after its own work
TimeLogCall ==
    /\ CanCall("time_log")
    /\ Len(tlcalls) < MaxLogCalls
    /\ \E task_name \in LogTasks, op_name \in LogOps, filename \in LogTargets :
          LET start == clock
              end == clock + 1
              r == TimeLog(Tick(Cur), task_name, op_name, filename, start, end)
          IN  /\ Commit(r.w)
              /\ args' = [task_name |-> task_name, op_name |-> op_name,
                          filename |-> filename, start |-> start, end |-> end]
              /\ outcome' = IF r.exc = "none"
                            THEN [kind |-> "return", value |-> None]
                            ELSE [kind |-> "raise", exc |-> r.exc, msg |-> <<>>]
              /\ loc' = IF r.exc = "none"
                        THEN [loc EXCEPT !.returned = Append(@, r.w.tl[Len(r.w.tl)])]
                        ELSE loc
    /\ UNCHANGED <<vm, fn, pc, fs0>>

\* one call load_volume(volume) made from the function `caller`
LoadVolumeCall ==
    /\ CanCall("load_volume")
    /\ loc.ncalls < MaxIoCalls
    /\ \E volume \in LoadInputs, caller \in LogTasks :
          LET r == LoadVolume(Cur, volume, caller)
          IN  /\ Commit(r.w)
              /\ args' = [volume |-> volume, caller |-> caller]
              /\ outcome' = IF r.exc = "none"
                            THEN [kind |-> "return", value |-> r.image]
                            ELSE [kind |-> "raise", exc |-> r.exc, msg |-> r.msg]
    /\ loc' = [loc EXCEPT !.ncalls = @ + 1, !.log0 = logfile, !.ev0 = trace]
    /\ fs0' = fs
    /\ UNCHANGED <<vm, fn, pc>>

\* one call save_volume(filename, volume, dtype, overwrite_file) made from
\* the function `caller`
SaveVolumeCall ==
    /\ CanCall("save_volume")
    /\ loc.ncalls < MaxIoCalls
    /\ \E filename \in SaveTargets, volume \in SaveInputs, dtype \in Dtypes,
          overwrite_file \in BOOLEAN, caller \in LogTasks :
          LET r == SaveVolume(Cur, filename, volume, dtype, overwrite_file, caller)
          IN  /\ Commit(r.w)
              /\ args' = [filename |-> filename, volume |-> volume, dtype |-> dtype,
                          overwrite_file |-> overwrite_file, caller |-> caller]
              /\ outcome' = IF r.exc = "none"
                            THEN [kind |-> "return", value |-> None]
                            ELSE [kind |-> "raise", exc |-> r.exc, msg |-> <<>>]
    /\ loc' = [loc EXCEPT !.ncalls = @ + 1, !.log0 = logfile, !.ev0 = trace]
    /\ fs0' = fs
    /\ UNCHANGED <<vm, fn, pc>>

NextIO == TimeLogCall \/ LoadVolumeCall \/ SaveVolumeCall

SpecIO == InitIO /\ [][NextIO]_vars

----------------------------------------------------------------------------
(* The specification of two calls of time_log running at the same time on  *)
(* one log file, each a thread or process of its own.  A call is split at  *)
(* its accesses to the file: the test of line 113, the open and the write  *)
(* of lines 114-115, the read of lines 118-119, the open of line 137 and   *)
(* the dump of line 138.  loc[p] is the frame of call p.                   *)

Procs == {"p", "q"}

\* a file just opened for writing: created or truncated, nothing in it yet
EmptyFile == [t |-> "empty"]

\* a file that holds the end of one document after the whole of another
CorruptFile == [t |-> "corrupt"]

\* what json.load accepts
IsDocument(file) == file.t = "file"

\* the file after a writer, its file opened earlier, writes `mine` from
\* offset 0 and closes: its own document when nothing was written since its
\* open, else its own document or, when that is the shorter, its own document
\* followed by the rest of the other
Overwrite(file, mine) == IF file = EmptyFile THEN {mine} ELSE {mine, CorruptFile}

\* lines 121-135: the dict with the entry appended under task and operation
LogAppend(log, task_name, op_name, entry) ==
    LET log1 == IF task_name \notin DOMAIN log
                THEN log @@ (task_name :> EmptyDict) ELSE log
        log2 == IF op_name \notin DOMAIN log1[task_name]
                THEN [log1 EXCEPT ![task_name] = @ @@ (op_name :> <<>>)] ELSE log1
    IN  [log2 EXCEPT ![task_name][op_name] = Append(@, entry)]

\* the target paths of the concurrent calls
ConcTargets == {None, Str(PathA)}

ConcFs == {f \in IoFs : f[PathD] = NoFile}

InitConc ==
    /\ fn = "time_log"
    /\ fs \in ConcFs
    /\ logfile \in {NoFile, JsonDump(EmptyDict)}
    /\ clock = 0
    /\ vm = FALSE
    /\ pc = "concurrent"
    /\ args = <<>>
    /\ loc = [p \in Procs |-> [pc |-> "idle", outcome |-> NoOutcome]]
    /\ trace = <<>>
    /\ outcome = NoOutcome
    /\ tlcalls = <<>>
    /\ fs0 = fs

ConcFrame == UNCHANGED <<fs, vm, fn, pc, args, outcome, tlcalls, fs0>>

\* call p is made
ConcCall(p) ==
    /\ loc[p].pc = "idle"
    /\ \E task_name \in LogTasks, op_name \in LogOps, filename \in ConcTargets :
          loc' = [loc EXCEPT ![p] =
                    [pc |-> "exists", outcome |-> NoOutcome,
                     task_name |-> task_name, op_name |-> op_name,
                     filename |-> filename, start |-> clock, end |-> clock + 1]]
    /\ clock' = clock + 1
    /\ UNCHANGED <<logfile, trace>>
    /\ ConcFrame

\* line 113
ConcExists(p) ==
    /\ loc[p].pc = "exists"
    /\ loc' = [loc EXCEPT ![p].pc = IF logfile = NoFile THEN "create" ELSE "read"]
    /\ UNCHANGED <<logfile, clock, trace>>
    /\ ConcFrame

\* line 114: open(log_file, 'w+') creates the file or truncates it
ConcCreateOpen(p) ==
    /\ loc[p].pc = "create"
    /\ logfile' = EmptyFile
    /\ loc' = [loc EXCEPT ![p].pc = "create_write"]
    /\ trace' = Append(trace, Ev("truncate", <<p>>))
    /\ UNCHANGED clock
    /\ ConcFrame

\* line 115, and the close of the with block
ConcCreateWrite(p) ==
    /\ loc[p].pc = "create_write"
    /\ logfile' \in Overwrite(logfile, JsonDump(EmptyDict))
    /\ loc' = [loc EXCEPT ![p].pc = "read"]
    /\ trace' = Append(trace, Ev("create", <<p>>))
    /\ UNCHANGED clock
    /\ ConcFrame

\* lines 118-135: json.load of the file, which raises on a file that holds
\* no document, then the entry appended in memory
ConcRead(p) ==
    /\ loc[p].pc = "read"
    /\ LET me == loc[p]
       IN  IF ~IsDocument(logfile)
           THEN loc' = [loc EXCEPT ![p].pc = "done",
                                   ![p].outcome = [kind |-> "raise", exc |-> "ValueError", msg |-> <<>>]]
           ELSE IF StatsTarget(me.filename) /\ ~IsFile(fs, me.filename)
           THEN loc' = [loc EXCEPT ![p].pc = "done",
                                   ![p].outcome = [kind |-> "raise", exc |-> "OSError", msg |-> <<>>]]
           ELSE LET filesize == IF StatsTarget(me.filename)
                                THEN fs[me.filename.s].size ELSE 0
                    entry == LogEntry(me.filename, filesize, me.start, me.end)
                IN  loc' = [loc EXCEPT ![p] = me @@ [log |-> LogAppend(JsonLoad(logfile),
                                                        me.task_name, me.op_name, entry)],
                                       ![p].pc = "write"]
    /\ trace' = Append(trace, Ev("read", <<p>>))
    /\ UNCHANGED <<logfile, clock>>
    /\ ConcFrame

\* line 137: open(log_file, "w") truncates the file
ConcWriteOpen(p) ==
    /\ loc[p].pc = "write"
    /\ logfile' = EmptyFile
    /\ loc' = [loc EXCEPT ![p].pc = "dump"]
    /\ trace' = Append(trace, Ev("truncate", <<p>>))
    /\ UNCHANGED clock
    /\ ConcFrame

\* ConcWriteDump of a time_log that appends to the document the file holds
\* at the time of the write, not to the one it read
ConcWriteDumpMerged(p) ==
    /\ loc[p].pc = "dump"
    /\ LET me == loc[p]
           entry == me.log[me.task_name][me.op_name][Len(me.log[me.task_name][me.op_name])]
           last == {i \in 1..Len(trace) : trace[i].op = "dump"}
           base == IF last = {} THEN logfile
                   ELSE JsonDump(loc[trace[CHOOSE i \in last : \A j \in last : j <= i].x[1]].log)
       IN  /\ logfile' = IF IsDocument(base)
                         THEN JsonDump(LogAppend(JsonLoad(base), me.task_name, me.op_name, entry))
                         ELSE JsonDump(me.log)
           /\ loc' = [loc EXCEPT ![p].pc = "done",
                                  ![p].log = JsonLoad(logfile'),
                                  ![p].outcome = [kind |-> "return", value |-> None]]
    /\ trace' = Append(trace, Ev("dump", <<p>>))
    /\ UNCHANGED clock
    /\ ConcFrame

\* line 138, and the close of the with block
ConcWriteDump(p) ==
    /\ loc[p].pc = "dump"
    /\ logfile' \in Overwrite(logfile, JsonDump(loc[p].log))
    /\ loc' = [loc EXCEPT ![p].pc = "done",
                           ![p].outcome = [kind |-> "return", value |-> None]]
    /\ trace' = Append(trace, Ev("dump", <<p>>))
    /\ UNCHANGED clock
    /\ ConcFrame

NextConc ==
    \E p \in Procs :
        \/ ConcCall(p) \/ ConcExists(p) \/ ConcCreateOpen(p) \/ ConcCreateWrite(p)
        \/ ConcRead(p) \/ ConcWriteOpen(p) \/ ConcWriteDump(p)

SpecConc == InitConc /\ [][NextConc]_vars

----------------------------------------------------------------------------
(* The specification of the two helpers of mgdm_segmentation.py called on  *)
(* their own: one call of _get_mgdm_orientation on an axis code, or of     *)
(* _get_mgdm_intensity_priors on an atlas file.                            *)

\* how many lines an atlas file has at most
MaxAtlasLines == 3

AxisLetters == {"L", "R", "A", "P", "I", "S"}

\* the None nb.aff2axcodes gives for an axis it cannot name
NoAxis == "None"

\* what nb.aff2axcodes may return: a letter or None for each of three axes
AxisCodes == [1..3 -> AxisLetters \cup {NoAxis}]

\* the lines an atlas file is made of
AtlasLines ==
    { <<"Structures:", "2">>, <<"Structures:">>, <<"Structures:", "label">>,
      <<"Intensity", "Prior:", "T1">>, <<"Intensity", "Prior:", "T2">>,
      <<"Intensity", "Prior:">>, <<"Topology", "Atlas:", "T1">>, <<>> }

AtlasFiles == UNION {[1..n -> AtlasLines] : n \in 0..MaxAtlasLines}

\* the largest extent of an array along one axis
MaxDim == 3

\* the shapes (X, Y, Z) with X, Y, Z >= 1
Shapes == {<<x, y, z>> : x \in 1..MaxDim, y \in 1..MaxDim, z \in 1..MaxDim}

\* the 3D arrays handed to the engine: voxels all different, so that an
\* element out of its place shows, stored in ascending or descending order
VoxelData(shape) ==
    { [m \in 1..NVox(shape) |-> m], [m \in 1..NVox(shape) |-> NVox(shape) + 1 - m] }

Arrays == UNION {{Array(shape, c) : c \in VoxelData(shape)} : shape \in Shapes}

InitPure ==
    /\ \/ fn = "_get_mgdm_orientation" /\ args \in [orientation : AxisCodes]
       \/ fn = "_get_mgdm_intensity_priors" /\ args \in [atlas_file : AtlasFiles]
       \/ fn = "flatten_reshape" /\ args \in [data : Arrays]
    /\ fs = [p \in AllPaths |-> NoFile]
    /\ logfile = NoFile
    /\ clock = 0
    /\ vm = FALSE
    /\ pc = "idle"
    /\ loc = <<>>
    /\ trace = <<>>
    /\ outcome = NoOutcome
    /\ tlcalls = <<>>
    /\ fs0 = fs

\* _get_mgdm_orientation(affine, mgdm), affine having the axis codes
\* args.orientation
OrientationCall ==
    /\ CanCall("_get_mgdm_orientation")
    /\ LET r == GetMgdmOrientation(args.orientation)
       IN  IF r.exc # "none" THEN Raise(r.exc) ELSE Return(r.value)
    /\ UNCHANGED <<fs, logfile, clock, vm, fn, args, loc, trace, tlcalls, fs0>>

\* _get_mgdm_intensity_priors(atlas_file)
PriorsCall ==
    /\ CanCall("_get_mgdm_intensity_priors")
    /\ LET r == GetMgdmIntensityPriors(args.atlas_file)
       IN  IF r.exc # "none" THEN Raise(r.exc) ELSE Return(r.priors)
    /\ UNCHANGED <<fs, logfile, clock, vm, fn, args, loc, trace, tlcalls, fs0>>

\* the marshaling of one array to the engine and back: data.flatten('F')
\* on the way in, np.reshape(buffer, dimensions, 'F') on the way out, with
\* dimensions = data.shape
FlattenReshapeCall ==
    /\ CanCall("flatten_reshape")
    /\ LET buffer == FlattenF(args.data)
           dimensions == args.data.shape
       IN  Return([buffer |-> buffer, array |-> ReshapeF(buffer, dimensions)])
    /\ UNCHANGED <<fs, logfile, clock, vm, fn, args, loc, trace, tlcalls, fs0>>

NextPure == OrientationCall \/ PriorsCall \/ FlattenReshapeCall

SpecPure == InitPure /\ [][NextPure]_vars

----------------------------------------------------------------------------
(* Reading the trace of a call.                                            *)

\* the VolumeIO events, as against the calls made on the engine
IsIoEvent(e) == e.op \in {"read", "write"}

EngineTrace == SelectSeq(trace, LAMBDA e : ~IsIoEvent(e))

Positions(op) == {i \in 1..Len(trace) : trace[i].op = op}

Called(op) == Positions(op) # {}

\* every call of op1 comes before every call of op2
Before(op1, op2) == \A i \in Positions(op1), j \in Positions(op2) : i < j

Done == pc = "done"

Returned == Done /\ outcome.kind = "return"

Raised(e) == Done /\ outcome.kind = "raise" /\ outcome.exc = e

----------------------------------------------------------------------------
(* Claims on the cache of cruise_cortex_extraction.                        *)

\* the eight derived output files that are missing when the call starts
AbsentAtCall == {n \in CruiseNames : ~IsFile(fs0, CruiseFiles[n])}

CachedCall ==
    fn = "cruise" /\ pc # "idle" /\ args.save_data /\ ~args.overwrite /\ AbsentAtCall = {}

\* C1: a call of cruise_cortex_extraction with save_data true, overwrite
\* false and all eight derived output files there makes no call on the engine
\* (no configuration, no execute), touches no file, and returns the mapping
\* of the eight output names to exactly the eight derived paths.
C1_CacheShortCircuit ==
    CachedCall =>
        /\ trace = <<>>
        /\ fs = fs0
        /\ pc \in {"c_cache", "done"}
        /\ Done =>
              /\ outcome.kind = "return"
              /\ DOMAIN outcome.value = CruiseNames
              /\ \A i \in 1..NCruise :
                    outcome.value[CruiseOutputs[i].name]
                        = Fname4Saving(CruiseOutputs[i].suffix)

C1_Witness == CachedCall /\ Returned

OneAbsentCall ==
    fn = "cruise" /\ pc # "idle" /\ args.save_data /\ ~args.overwrite
    /\ Cardinality(AbsentAtCall) = 1

\* the i-th output was saved: save_volume wrote its volume to its derived file
SavedCruise(i) ==
    LET file == CruiseFiles[CruiseOutputs[i].name]
    IN  /\ \E p \in Positions("write") :
              /\ trace[p].x[1] = file
              /\ trace[p].x[2].data = loc.out[i].data
        /\ IsFile(fs, file)
        /\ fs[file.s].vol.data = loc.out[i].data

\* C2: with save_data true, overwrite false and exactly one of the eight
\* derived files missing, whichever it is, the short-circuit is not taken:
\* the call goes on to configure the engine; it ends early only on an error
\* of a load or of the engine, and a call that returns has configured the
\* engine, then invoked execute, then saved all eight outputs.
C2_OneAbsentForcesRun ==
    (OneAbsentCall /\ Done) =>
        /\ \A i \in 1..Len(CruiseSetters) : Called(CruiseSetters[i])
        /\ outcome.kind = "raise" =>
              outcome.exc \in {"ValueError", "IOError", EngineError}
        /\ outcome.kind = "return" =>
              /\ Called("execute")
              /\ \A i \in 1..Len(CruiseSetters) : Before(CruiseSetters[i], "execute")
              /\ Before("execute", "write")
              /\ Cardinality(Positions("write")) = NCruise
              /\ \A i \in 1..NCruise : SavedCruise(i)

C2_Witness == OneAbsentCall /\ Returned /\ Called("execute")

----------------------------------------------------------------------------
(* Claims on the sanity check of mgdm_segmentation.                        *)

\* channel k has been read by the sanity check
Read(k) == fn = "mgdm" /\ pc # "idle" /\ ImageArg(k) \in DOMAIN args

\* the catalog parsed from the atlas file of the call
Catalog == GetMgdmIntensityPriors(args.atlas_file).priors

ImageWithoutType(k) == Read(k) /\ args[ImageArg(k)] # None /\ args[TypeArg(k)] = None

\* C3: for every channel k in 2..4, when the sanity check meets
\* contrast_image k given and contrast_type k absent, the call fails with a
\* ValueError whose message names index k, and nothing has been done on the
\* engine: no initVM, no instance, no setter.  (The check goes channel by
\* channel and raises at the first channel at fault.)
C3_ImageWithoutType ==
    \A k \in 2..4 :
        ImageWithoutType(k) =>
            /\ Raised("ValueError")
            /\ outcome.msg.text = "specify contrast_type"
            /\ outcome.msg.index = k
            /\ trace = <<>>

C3_Witness == ImageWithoutType(4) /\ Done

InvalidType(k) ==
    Read(k) /\ args[TypeArg(k)] # None /\ ~InSeq(args[TypeArg(k)], Catalog)

\* C4: for every channel k in 1..4, when the sanity check meets a
\* contrast_type k that is given and is not one of the prior names parsed
\* from the atlas file, the call fails with a ValueError that carries the
\* catalog's prior names, and nothing has been done on the engine.
C4_InvalidType ==
    \A k \in 1..4 :
        InvalidType(k) =>
            /\ Raised("ValueError")
            /\ outcome.msg.text = "not a valid contrast type"
            /\ outcome.msg.index = k
            /\ outcome.msg.ctype = args[TypeArg(k)]
            /\ outcome.msg.choices = Catalog
            /\ trace = <<>>

C4_Witness ==
    /\ InvalidType(3) /\ Done
    /\ args.contrast_image3 = None
    /\ Len(Catalog) > 0

----------------------------------------------------------------------------
(* Claims on errors, in both orchestrators.                                *)

\* the ValueError is one of the sanity check, not load_volume's
CheckError == outcome.msg.text \in {"specify contrast_type", "not a valid contrast type"}

KindError == outcome.msg = InputVolumeMsg

\* the parameter setters of the function the call runs
Setters == IF fn = "cruise" THEN CruiseSetters ELSE MgdmSetters

\* C5, as claimed: on every run that ends in a validation error no call has
\* been made on the engine.
C5_Original == Raised("ValueError") => EngineTrace = <<>>

\* C5, amended: every validation error is raised before execute is invoked.
\* The errors of the sanity check (image without type, invalid prior name)
\* are raised before anything is done on the engine; load_volume's error for
\* an input that is neither a path nor a SpatialImage is raised after the
\* engine instance was created and its parameter setters were called.
C5_ValidationBeforeExecute ==
    Raised("ValueError") =>
        /\ ~Called("execute")
        /\ CheckError \/ KindError
        /\ CheckError => EngineTrace = <<>>
        /\ KindError => \A i \in 1..Len(Setters) : Called(Setters[i])

C5_Witness ==
    /\ Raised("ValueError") /\ KindError /\ fn = "cruise"
    /\ Called("setTopologyLUTdirectory")

----------------------------------------------------------------------------
(* Claims on what the engine receives and on its failure.                  *)

\* the data of an image argument: of the file the path names, or its own
OwnData(v) == IF IsStr(v) THEN fs0[v.s].vol.data ELSE v.data

Loadable(v) == IsVolume(v) \/ (IsStr(v) /\ IsFile(fs0, v))

\* channels 1..k are all given, each with a loadable image and a valid type
ChannelsGiven(k) ==
    /\ Read(4)
    /\ \A j \in 1..k :
          /\ Loadable(args[ImageArg(j)])
          /\ args[TypeArg(j)] # None
          /\ InSeq(args[TypeArg(j)], Catalog)

\* the engine got channel k's own image, flattened in column-major order,
\* and channel k's type, and execute was not invoked before
Received(k) ==
    /\ \E p \in Positions(ImageSetter(k)) :
          trace[p].x = FlattenF(OwnData(args[ImageArg(k)]))
    /\ \E p \in Positions(TypeSetter(k)) : trace[p].x = <<args[TypeArg(k)]>>
    /\ Before(ImageSetter(k), "execute")
    /\ Before(TypeSetter(k), "execute")

\* C6: for every k in 2..4 such that channels 1..k are all given with an
\* image and a valid type, on a call that gets as far as execute the engine
\* has received, before execute, the column-major flattening of channel k's
\* own image through the channel-k image setter and channel k's type
\* through the channel-k type setter.
C6_OwnImageReachesEngine ==
    \A k \in 2..4 : (ChannelsGiven(k) /\ Called("execute")) => Received(k)

\* the same of channel 1, which the code does hand to the engine
C6_Channel1Received == (ChannelsGiven(1) /\ Called("execute")) => Received(1)

\* with channels 1 and 2 given, no call with an in-memory second image, and
\* no call whose second path names its own file only, gets as far as execute
C6_SecondChannelLost ==
    (ChannelsGiven(2) /\ Called("execute")) =>
        /\ IsStr(args.contrast_image2)
        /\ IsFile(fs0, Subscript(args.contrast_image2, 3).value)

ExecuteFailed == \E p \in Positions("execute") : trace[p].x = <<EngineError>>

ExecuteSucceeded == \E p \in Positions("execute") : trace[p].x = <<"ok">>

Getters ==
    {CruiseOutputs[i].getter : i \in 1..NCruise}
        \cup {MgdmOutputs[i].getter : i \in 1..NMgdm}

\* C7: in both orchestrators, when execute fails the call fails with the
\* engine's own error: execute was invoked once, no getter was called, no
\* output volume was built and no output file was written.
C7_EngineFailurePropagates ==
    ExecuteFailed =>
        /\ Raised(EngineError)
        /\ Cardinality(Positions("execute")) = 1
        /\ \A g \in Getters : ~Called(g)
        /\ "out" \notin DOMAIN loc
        /\ ~Called("write")
        /\ \A p \in CruisePaths \cup MgdmPaths : fs[p] = fs0[p]

C7_Witness == ExecuteFailed /\ fn = "cruise" /\ args.save_data

----------------------------------------------------------------------------
(* Claims on the result and on saving.                                     *)

Names == IF fn = "cruise" THEN CruiseNames ELSE MgdmNames

Files == IF fn = "cruise" THEN CruiseFiles ELSE MgdmFiles

\* C8: in both orchestrators a call whose engine run succeeds returns a
\* mapping of every output name to the path of its saved file when
\* save_data is true, and to an in-memory volume when it is false.
C8_ResultBundle ==
    (ExecuteSucceeded /\ Done) =>
        /\ outcome.kind = "return"
        /\ DOMAIN outcome.value = Names
        /\ \A n \in Names :
              IF args.save_data
              THEN outcome.value[n] = Files[n] /\ IsFile(fs, Files[n])
              ELSE IsVolume(outcome.value[n])

\* the same of cruise_cortex_extraction alone
C8_CruiseResultBundle == fn = "cruise" => C8_ResultBundle

\* the i-th output of mgdm_segmentation was saved to its derived file
SavedMgdm(i) ==
    LET file == MgdmFiles[MgdmOutputs[i].name]
    IN  /\ \E p \in Positions("write") :
              /\ trace[p].x[1] = file
              /\ trace[p].x[2].data = loc.out[i].data
        /\ IsFile(fs, file)
        /\ fs[file.s].vol.data = loc.out[i].data

\* C9: a call of mgdm_segmentation whose engine run succeeds with save_data
\* true issues exactly four save operations, one per output, each writing
\* the output's own volume to the output's own derived file, and returns.
C9_MgdmSavesFour ==
    (fn = "mgdm" /\ ExecuteSucceeded /\ Done /\ args.save_data) =>
        /\ outcome.kind = "return"
        /\ Cardinality(Positions("write")) = NMgdm
        /\ \A i \in 1..NMgdm : SavedMgdm(i)

\* what the code does there: three outputs saved, then the NameError
C9_ThreeSavedThenNameError ==
    (fn = "mgdm" /\ ExecuteSucceeded /\ Done /\ args.save_data) =>
        /\ Raised("NameError")
        /\ Cardinality(Positions("write")) = NMgdm - 1
        /\ \A i \in 1..NMgdm - 1 : SavedMgdm(i)

----------------------------------------------------------------------------
(* Claims on the time log.                                                 *)

\* what identifies the call an entry was recorded by
CallOf(e) == [filename |-> e.filename, start |-> e.start, end |-> e.end]

\* the list stored in the log file under document[task][operation]
Stored(task, op) ==
    IF logfile = NoFile THEN <<>>
    ELSE LET log == JsonLoad(logfile)
         IN  IF task \notin DOMAIN log THEN <<>>
             ELSE IF op \notin DOMAIN log[task] THEN <<>>
             ELSE [i \in 1..Len(log[task][op]) |-> CallOf(log[task][op][i])]

\* the calls of `calls` made with that task and operation, in call order
CallsWith(calls, task, op) ==
    LET mine == SelectSeq(calls, LAMBDA c : c.task = task /\ c.op = op)
    IN  [i \in 1..Len(mine) |-> CallOf(mine[i])]

\* C10: after any sequence of calls of time_log made one after the other on
\* one log file, the list stored under document[task][operation] is the
\* entries of the calls made with that task and operation, in call order.
C10_LogIsCallHistory ==
    fn = "time_log" =>
        \A task \in LogTasks, op \in LogOps :
            Stored(task, op) = CallsWith(tlcalls, task, op)

\* what the code keeps: the list is the entries of the calls that returned
C10_LogIsReturnedCalls ==
    fn = "time_log" =>
        \A task \in LogTasks, op \in LogOps :
            Stored(task, op) = CallsWith(loc.returned, task, op)

\* each entry stored has the duration of its call
C10_Durations ==
    (fn = "time_log" /\ logfile # NoFile) =>
        LET log == JsonLoad(logfile)
        IN  \A task \in DOMAIN log : \A op \in DOMAIN log[task] :
              \A i \in 1..Len(log[task][op]) :
                 log[task][op][i].duration = log[task][op][i].end - log[task][op][i].start

\* the entry the last call of time_log appended: the last of the list stored
\* under its task and operation
LastEntry ==
    LET list == JsonLoad(logfile)[args.task_name][args.op_name]
    IN  list[Len(list)]

\* a call of time_log has been made, the last with this target path
LoggedWith(filename) ==
    fn = "time_log" /\ outcome # NoOutcome /\ args.filename = filename

\* the size time_log is to record for a target path: the size of the file
\* it names, 0 when the path is None, empty or names no file
SizeOf(filename) ==
    IF StatsTarget(filename) /\ IsFile(fs, filename) THEN fs[filename.s].size ELSE 0

\* C11: a call of time_log returns and the entry it appended records the
\* size of the file its target path names, and 0 when the target path is
\* None, is empty or names a file that does not exist.
C11_FilesizeRecorded ==
    \A filename \in LogTargets :
        LoggedWith(filename) =>
            /\ outcome.kind = "return"
            /\ LastEntry.filename = filename
            /\ LastEntry.filesize = SizeOf(filename)

\* what the code keeps: the same, of the target paths os.stat accepts
C11_FilesizeOfStatted ==
    \A filename \in LogTargets :
        (LoggedWith(filename) /\ (StatsTarget(filename) => IsFile(fs, filename))) =>
            /\ outcome.kind = "return"
            /\ LastEntry.filename = filename
            /\ LastEntry.filesize = SizeOf(filename)

\* what the code does with a target path that names no file
C11_MissingTargetRaises ==
    \A filename \in LogTargets :
        (LoggedWith(filename) /\ StatsTarget(filename) /\ ~IsFile(fs, filename)) =>
            /\ outcome.kind = "raise" /\ outcome.exc = "OSError"
            /\ Stored(args.task_name, args.op_name)
                  = CallsWith(loc.returned, args.task_name, args.op_name)

----------------------------------------------------------------------------
(* Claims on load_volume and save_volume called directly.                  *)

\* a call of load_volume, or of save_volume, has been made
Loaded == fn = "load_volume" /\ outcome # NoOutcome

Saved == fn = "save_volume" /\ outcome # NoOutcome

\* the list a log file holds under document[task][operation]
Entries(file, task, op) ==
    IF file = NoFile THEN <<>>
    ELSE LET log == JsonLoad(file)
         IN  IF task \notin DOMAIN log THEN <<>>
             ELSE IF op \notin DOMAIN log[task] THEN <<>>
             ELSE log[task][op]

\* the last call left every list of the log as it found it
NoEntryAdded ==
    \A task \in LogTasks, op \in LogOps :
        Entries(logfile, task, op) = Entries(loc.log0, task, op)

\* the last call added one entry, for the path `filename`, at the end of the
\* list of `task` and `op` and left every other list as it found it
OneEntryAdded(task, op, filename) ==
    /\ Len(Entries(logfile, task, op)) = Len(Entries(loc.log0, task, op)) + 1
    /\ SubSeq(Entries(logfile, task, op), 1, Len(Entries(loc.log0, task, op)))
          = Entries(loc.log0, task, op)
    /\ Entries(logfile, task, op)[Len(Entries(logfile, task, op))].filename = filename
    /\ \A t \in LogTasks, o \in LogOps :
          <<t, o>> # <<task, op>> => Entries(logfile, t, o) = Entries(loc.log0, t, o)

\* C12, as claimed: every call of load_volume and every call of save_volume
\* adds exactly one entry to the time log, under the task name of its caller
\* and the operation "read" or "write", whatever it was given.
C12_Original ==
    /\ Loaded => OneEntryAdded(args.caller, "read", args.volume)
    /\ Saved => OneEntryAdded(args.caller, "write", args.filename)

\* load_volume was given a path that names a file
LoadReads == IsStr(args.volume) /\ IsFile(fs0, args.volume)

\* save_volume was given a Volume, or something else with dtype None and a
\* target path that names a file already
SaveCompletes ==
    \/ IsVolume(args.volume)
    \/ args.dtype = None /\ IsFile(fs0, args.filename)

\* C12, amended: a call of load_volume given a path that names a file adds
\* exactly one entry, under its caller's task name and "read"; given a
\* Volume, an invalid input or a path that names no file it adds none.  A
\* call of save_volume given a Volume adds exactly one entry, under its
\* caller's task name and "write", whether or not the file was written;
\* given anything else it adds one only when dtype is None and the target
\* file exists already, and otherwise raises and adds none.
C12_OneEntryPerFileOperation ==
    /\ Loaded =>
          IF LoadReads
          THEN outcome.kind = "return" /\ OneEntryAdded(args.caller, "read", args.volume)
          ELSE NoEntryAdded
    /\ Saved =>
          IF SaveCompletes
          THEN outcome.kind = "return" /\ OneEntryAdded(args.caller, "write", args.filename)
          ELSE outcome.kind = "raise" /\ NoEntryAdded

\* a save that found the file there and left it, and was logged all the same
C12_Witness ==
    /\ Saved /\ IsVolume(args.volume)
    /\ IsFile(fs0, args.filename) /\ ~args.overwrite_file
    /\ loc.ncalls = 2
    /\ OneEntryAdded(args.caller, "write", args.filename)

\* the last call wrote no file: no write event, every file as it was
NothingWritten ==
    /\ trace = loc.ev0
    /\ \A path \in AllPaths : fs[path] = fs0[path]

\* C13: a call of save_volume given an object that is not a Volume returns
\* without raising and writes no file, whatever dtype is, the default
\* included.
C13_MalformedVolumeNoRaise ==
    (Saved /\ ~IsVolume(args.volume)) =>
        /\ outcome.kind = "return"
        /\ NothingWritten

\* what the code does there: it writes no file, and it returns only when
\* dtype is None and the target file exists already
C13_MalformedVolumeOutcome ==
    (Saved /\ ~IsVolume(args.volume)) =>
        /\ NothingWritten
        /\ outcome =
              IF args.dtype # None
              THEN [kind |-> "raise", exc |-> "AttributeError", msg |-> <<>>]
              ELSE IF ~IsFile(fs0, args.filename)
              THEN [kind |-> "raise", exc |-> "OSError", msg |-> <<>>]
              ELSE [kind |-> "return", value |-> None]

\* save_volume was called with overwrite_file False on a path that names a file
KeepExisting == Saved /\ ~args.overwrite_file /\ IsFile(fs0, args.filename)

\* C14: a call of save_volume with overwrite_file False on a path where a
\* file exists leaves the content of that file unchanged and returns
\* without raising.
C14_ExistingFileKept ==
    KeepExisting =>
        /\ fs[args.filename.s] = fs0[args.filename.s]
        /\ outcome.kind = "return"

\* what the code keeps: the file is left unchanged in every case, and the
\* call returns unless it was given a dtype and an object that is not a
\* Volume
C14_ExistingFileKeptOutcome ==
    KeepExisting =>
        /\ NothingWritten
        /\ outcome =
              IF args.dtype # None /\ ~IsVolume(args.volume)
              THEN [kind |-> "raise", exc |-> "AttributeError", msg |-> <<>>]
              ELSE [kind |-> "return", value |-> None]

\* the last call read no file
NothingRead == trace = loc.ev0

\* C20: load_volume given an in-memory Volume returns that same Volume and
\* reads no file; given something that is neither a path string nor a
\* Volume it raises the input-type error and returns nothing.
C20_PassThroughOrTypeError ==
    Loaded =>
        /\ IsVolume(args.volume) =>
              /\ outcome = [kind |-> "return", value |-> args.volume]
              /\ NothingRead
        /\ (~IsStr(args.volume) /\ ~IsVolume(args.volume)) =>
              /\ outcome = [kind |-> "raise", exc |-> "ValueError", msg |-> InputVolumeMsg]
              /\ NothingRead

C20_Witness ==
    /\ Loaded /\ args.volume = Other /\ outcome.kind = "raise"
    /\ loc.ncalls = 2 /\ loc.ev0 # <<>>

----------------------------------------------------------------------------
(* Claims on calls of time_log running at the same time.                   *)

ConcReturned(p) == loc[p].pc = "done" /\ loc[p].outcome.kind = "return"

\* the entries of the document the log file holds, of every task and operation
AllEntries ==
    LET log == JsonLoad(logfile)
    IN  UNION {UNION {{log[task][op][i] : i \in 1..Len(log[task][op])} :
                         op \in DOMAIN log[task]} :
                  task \in DOMAIN log}

\* the document holds the entry of call p (calls differ by their start)
HasEntry(p) == \E e \in AllEntries : e.start = loc[p].start

\* the place in the trace of the one event `op` of call p
EventAt(op, p) == CHOOSE i \in 1..Len(trace) : trace[i] = Ev(op, <<p>>)

\* both calls have returned, call p having written the document first and
\* q last, and the file holds a document
WroteInTurn(p, q) ==
    /\ p # q
    /\ ConcReturned(p) /\ ConcReturned(q)
    /\ IsDocument(logfile)
    /\ EventAt("dump", p) < EventAt("dump", q)

\* C15: of two calls of time_log running at the same time on one log file,
\* the one that writes the document last wins on the whole document: its
\* own entry is there, and the entry of the other is lost whenever the last
\* writer read the document before the other wrote it.  Nothing in the code
\* (no lock, no version check) prevents that interleaving.
C15_LastWriterWins ==
    \A p \in Procs, q \in Procs :
        WroteInTurn(p, q) =>
            /\ HasEntry(q)
            /\ EventAt("read", q) < EventAt("dump", p) => ~HasEntry(p)

\* both calls have completed and the document, empty at first, holds the
\* entry of one only
C15_Witness ==
    \E p \in Procs, q \in Procs :
        /\ WroteInTurn(p, q)
        /\ EventAt("read", p) < EventAt("read", q)
        /\ EventAt("read", q) < EventAt("dump", p)
        /\ HasEntry(q) /\ ~HasEntry(p)
        /\ Cardinality(AllEntries) = 1

\* calls that do not overlap lose nothing
C15_InTurnKeepsBoth ==
    \A p \in Procs, q \in Procs :
        (WroteInTurn(p, q) /\ EventAt("dump", p) < EventAt("read", q)
            /\ \A i \in 1..Len(trace) :
                  (trace[i].x = <<q>> /\ trace[i].op \in {"truncate", "create"})
                      => \/ i > EventAt("read", q)
                         \/ i < EventAt("dump", p))
            => HasEntry(p) /\ HasEntry(q)

----------------------------------------------------------------------------
(* Claims on _get_mgdm_orientation.                                        *)

\* the call of _get_mgdm_orientation has ended
Oriented == fn = "_get_mgdm_orientation" /\ Done

\* the code has exactly one letter of each of the pairs L/R, A/P, I/S: the 48
\* codes of a full orientation
IsFullCode(code) ==
    /\ Cardinality({i \in 1..3 : code[i] \in {"L", "R"}}) = 1
    /\ Cardinality({i \in 1..3 : code[i] \in {"A", "P"}}) = 1
    /\ Cardinality({i \in 1..3 : code[i] \in {"I", "S"}}) = 1

FullCodes == {code \in AxisCodes : IsFullCode(code)}

\* C16: on each of the 48 full axis codes _get_mgdm_orientation returns, and
\* the slice order it returns is decided by the last character alone: I or S
\* gives AXIAL, L or R gives SAGITTAL, A or P gives CORONAL.
C16_SliceOrderFromLastAxis ==
    (Oriented /\ IsFullCode(args.orientation)) =>
        /\ outcome.kind = "return"
        /\ LET last == args.orientation[3]
           IN  outcome.value[1] =
                   IF last \in {"I", "S"} THEN "AXIAL"
                   ELSE IF last \in {"L", "R"} THEN "SAGITTAL"
                   ELSE "CORONAL"
        /\ \A other \in FullCodes :
              other[3] = args.orientation[3] =>
                  GetMgdmOrientation(other).value[1] = outcome.value[1]

C16_Witness ==
    /\ Oriented /\ args.orientation = <<"S", "R", "A">>
    /\ outcome.kind = "return" /\ outcome.value[1] = "CORONAL"
    /\ Cardinality(FullCodes) = 48

\* the letters of a code, whatever their order
Letters(code) == {code[i] : i \in 1..3}

\* C17: on each of the 48 full axis codes, each flip value returned is
\* decided by the letter of its own pair that is in the code (L gives R2L,
\* R gives L2R; A gives P2A, P gives A2P; I gives S2I, S gives I2S), so that
\* two codes that are permutations of the same letters get the same flips.
C17_FlipsFromLetters ==
    (Oriented /\ IsFullCode(args.orientation)) =>
        /\ outcome.kind = "return"
        /\ outcome.value[2] = IF "L" \in Letters(args.orientation) THEN "R2L" ELSE "L2R"
        /\ outcome.value[3] = IF "A" \in Letters(args.orientation) THEN "P2A" ELSE "A2P"
        /\ outcome.value[4] = IF "I" \in Letters(args.orientation) THEN "S2I" ELSE "I2S"
        /\ \A other \in FullCodes :
              Letters(other) = Letters(args.orientation) =>
                  SubSeq(GetMgdmOrientation(other).value, 2, 4) = SubSeq(outcome.value, 2, 4)

C17_Witness ==
    /\ Oriented /\ args.orientation = <<"I", "P", "L">>
    /\ outcome.kind = "return"
    /\ SubSeq(outcome.value, 2, 4) = <<"R2L", "A2P", "S2I">>

\* the code has no letter of at least one of the pairs
LacksPair(code) ==
    \/ Letters(code) \cap {"L", "R"} = {}
    \/ Letters(code) \cap {"A", "P"} = {}
    \/ Letters(code) \cap {"I", "S"} = {}

\* C18: on every axis code that has no letter of at least one of the pairs
\* L/R, A/P, I/S, a code whose last place is no letter included,
\* _get_mgdm_orientation raises and returns nothing.
C18_IncompleteCodeRaises ==
    (Oriented /\ LacksPair(args.orientation)) =>
        /\ outcome.kind = "raise"
        /\ outcome.exc = "UnboundLocalError"

C18_Witness ==
    /\ Oriented /\ args.orientation = <<"R", "A", NoAxis>>
    /\ outcome.kind = "raise"

----------------------------------------------------------------------------
(* Claims on _get_mgdm_intensity_priors.                                   *)

\* the call of _get_mgdm_intensity_priors has ended
Parsed == fn = "_get_mgdm_intensity_priors" /\ Done

\* the lines of the file that contain "Intensity Prior:", in file order
PriorLines(atlas) == SelectSeq(atlas, HasPrior)

\* the last whitespace-delimited token of each of them
LastTokens(atlas) ==
    [i \in 1..Len(PriorLines(atlas)) |->
        Str(<<PriorLines(atlas)[i][Len(PriorLines(atlas)[i])]>>)]

\* C19: on an atlas file with N lines containing "Intensity Prior:"
\* _get_mgdm_intensity_priors returns exactly N entries, each the last
\* token of its line, in file order with duplicates kept, and an empty
\* list when there is no such line.
C19_PriorsInFileOrder ==
    Parsed =>
        /\ outcome.kind = "return"
        /\ Len(outcome.value) = Len(PriorLines(args.atlas_file))
        /\ outcome.value = LastTokens(args.atlas_file)

\* the file has a "Structures:" line whose second token is missing or is
\* not an integer
BadStructures(atlas) ==
    \E i \in 1..Len(atlas) : HasStructures(atlas[i]) /\ StructuresError(atlas[i]) # "none"

\* what the code keeps: the same, of the files whose "Structures:" lines
\* all parse; on the others it raises and returns nothing
C19_PriorsUnlessBadStructures ==
    Parsed =>
        IF BadStructures(args.atlas_file)
        THEN outcome.kind = "raise" /\ outcome.exc \in {"IndexError", "ValueError"}
        ELSE /\ outcome.kind = "return"
             /\ outcome.value = LastTokens(args.atlas_file)

----------------------------------------------------------------------------
(* Claims on the channels of mgdm_segmentation.                            *)

\* the call was made without an image for channel 2
SecondAbsent == Read(2) /\ args[ImageArg(2)] = None

\* the call failed in the sanity check, at channel k
CheckRaisedAt(k) ==
    /\ Raised("ValueError") /\ CheckError
    /\ outcome.msg.index = k

\* nothing of channel k has been loaded or handed to the engine
Dropped(k) ==
    /\ ~Called(ImageSetter(k))
    /\ ~Called(TypeSetter(k))
    /\ \A p \in Positions("read") : trace[p].x = <<args[ImageArg(1)]>>

\* C21, as claimed: whenever channel 2's image is absent, whatever was
\* supplied for channels 3 and 4, the call raises no error on their account,
\* neither image is loaded or passed to the engine, and the run goes on with
\* channel 1 only.
C21_Original ==
    SecondAbsent =>
        /\ ~CheckRaisedAt(3) /\ ~CheckRaisedAt(4)
        /\ Dropped(3) /\ Dropped(4)
        /\ pc \notin {"m_load3", "m_load4"}

\* C21, amended: whenever channel 2's image is absent, neither the image of
\* channel 3 nor that of channel 4 is loaded or passed to the engine, and a
\* call that passes the sanity check goes on from channel 1 straight to
\* execute.  The sanity check itself still covers channels 3 and 4: the only
\* errors raised on their account are its two errors, for an image without a
\* type and for a type that is not in the catalog.
C21_DroppedAfterCheck ==
    SecondAbsent =>
        /\ Dropped(2) /\ Dropped(3) /\ Dropped(4)
        /\ pc \notin {"m_load3", "m_load4"}
        /\ \A k \in 3..4 :
              /\ CheckRaisedAt(k) => (ImageWithoutType(k) \/ InvalidType(k))
              /\ (Read(k) /\ ~ImageWithoutType(k) /\ ~InvalidType(k))
                     => ~CheckRaisedAt(k)
        /\ (Raised("ValueError") /\ ~CheckError) =>
              (KindError /\ ~Called(ImageSetter(1)))

\* channel 3 is fully given with a file that could be loaded, channel 2 is
\* absent, and the engine was run on channel 1 alone
C21_Witness ==
    /\ SecondAbsent /\ Read(4)
    /\ args[ImageArg(3)] = Str(PathA) /\ IsFile(fs0, Str(PathD))
    /\ args[TypeArg(3)] # None
    /\ Called("execute") /\ Returned

\* channel 3 has an image and no type while channel 2 is absent
C21_CheckStillRaises == SecondAbsent /\ CheckRaisedAt(3) /\ ImageWithoutType(3)

\* the four channels went through the sanity check and none raised
PassedCheck == Read(4) /\ (pc = "m_vm" \/ Called("initVM"))

Image(k) == args[ImageArg(k)]

Ctype(k) == args[TypeArg(k)]

\* channel k has both an image and a type of the catalog
BothHalves(k) == Image(k) # None /\ Ctype(k) # None /\ InSeq(Ctype(k), Catalog)

\* channel k has neither an image nor a type
NoHalf(k) == Image(k) = None /\ Ctype(k) = None

\* channel k has a type of the catalog and no image
TypeAlone(k) == Image(k) = None /\ Ctype(k) # None /\ InSeq(Ctype(k), Catalog)

\* C22, as claimed: in every set of channels that passes the sanity check,
\* each of channels 1..4 has either both an image and a type that is in the
\* catalog, or neither an image nor a type.
C22_Original == PassedCheck => \A k \in 1..4 : BothHalves(k) \/ NoHalf(k)

\* C22, amended: in every set of channels that passes the sanity check,
\* each of channels 1..4 has either both an image and a type that is in the
\* catalog, or no image; a channel without an image has no type or a type
\* that is in the catalog.
C22_NoImageWithoutValidType ==
    PassedCheck => \A k \in 1..4 : BothHalves(k) \/ NoHalf(k) \/ TypeAlone(k)

\* channel 2 came with a type and no image, channel 3 with both, and the
\* check was passed
C22_Witness == PassedCheck /\ TypeAlone(2) /\ BothHalves(3) /\ NoHalf(4) /\ Returned

----------------------------------------------------------------------------
(* Claims on the makespan entry of cruise_cortex_extraction.               *)

\* the entries of the log file under the task of cruise_cortex_extraction
\* and the operation "makespan"
Makespans == Entries(logfile, CruiseTask, "makespan")

\* a call of cruise_cortex_extraction that went past the cache and whose
\* engine ran to its end
CruiseRan == fn = "cruise" /\ pc # "idle" /\ ~CachedCall /\ ExecuteSucceeded

\* the calls of time_log made by load_volume and save_volume in this call
IoCalls == {i \in 1..Len(tlcalls) : tlcalls[i].op \in {"read", "write"}}

\* C23: a call of cruise_cortex_extraction that is not short-circuited and
\* whose engine execution succeeds returns with exactly one entry in the log
\* under task "cruise_cortex_extraction" and operation "makespan": filename
\* None, filesize 0, start the time the call began, end the time taken after
\* the last save, so that every read and write entry of the call lies within
\* it.  The entry is the last one recorded: while the call is loading and
\* saving there is none, and with save_data all eight writes come before it.
C23_MakespanEntry ==
    CruiseRan =>
        IF Done
        THEN /\ Returned
             /\ Len(Makespans) = 1
             /\ Makespans[1] = LogEntry(None, 0, loc.start, clock - 1)
             /\ loc.start = 0 /\ Makespans[1].duration = clock - 1
             /\ tlcalls[Len(tlcalls)].op = "makespan"
             /\ IoCalls = 1..(Len(tlcalls) - 1)
             /\ \A i \in IoCalls :
                   /\ Makespans[1].start <= tlcalls[i].start
                   /\ tlcalls[i].end <= Makespans[1].end
             /\ args.save_data => Cardinality(Positions("write")) = NCruise
        ELSE Makespans = <<>>

\* a call that loaded a file, saved its eight outputs and recorded its
\* makespan
C23_Witness ==
    /\ CruiseRan /\ Returned /\ args.save_data
    /\ Len(Makespans) = 1 /\ Makespans[1].duration > NCruise
    /\ \E i \in IoCalls : tlcalls[i].op = "read"

----------------------------------------------------------------------------
(* Claims on the engine runtime.                                           *)

\* the engine class each function instantiates
EngineClass == IF fn = "cruise" THEN "CortexOptimCRUISE" ELSE "BrainMgdmMultiSegmentation2"

\* the positions of the events a step has added to the trace
Added == {p \in 1..Len(trace') : p > Len(trace) \/ trace'[p] # trace[p]}

----------------------------------------------------------------------------
(* Claims on the marshaling of arrays.                                     *)

Marshaled == fn = "flatten_reshape" /\ Returned

\* the buffer holds element [i, j, k] at offset i + X*j + X*Y*k: the first
\* index varies fastest
ColumnMajor(buffer, a) ==
    /\ Len(buffer) = NVox(a.shape)
    /\ \A i \in 0..(a.shape[1] - 1), j \in 0..(a.shape[2] - 1), k \in 0..(a.shape[3] - 1) :
          buffer[1 + i + a.shape[1] * j + a.shape[1] * a.shape[2] * k] = At(a, i, j, k)

\* C25: for every shape (X, Y, Z) with X, Y, Z >= 1, flattening an array in
\* column-major order gives the buffer with the first index varying fastest,
\* and reshaping that buffer to (X, Y, Z) in column-major order gives the
\* original array back.
C25_FlattenReshapeRoundTrip ==
    Marshaled =>
        /\ ColumnMajor(outcome.value.buffer, args.data)
        /\ outcome.value.array = args.data

\* an array of shape (2, 3, 2) whose column-major buffer differs from its
\* row-major one came back as it was
C25_Witness ==
    /\ Marshaled /\ args.data.shape = <<2, 3, 2>>
    /\ outcome.value.buffer # args.data.c
    /\ outcome.value.array = args.data

----------------------------------------------------------------------------
(* Claims on the files cruise_cortex_extraction leaves alone.              *)

\* the output files that were there when the call was made
ExistedAtCall == {n \in CruiseNames : IsFile(fs0, CruiseFiles[n])}

\* C26: a call of cruise_cortex_extraction with save_data true and
\* overwrite false leaves every output file that existed before the call as
\* it was, also when only some of the eight output files existed.
C26_ExistingOutputsKept ==
    (fn = "cruise" /\ pc # "idle" /\ args.save_data /\ ~args.overwrite) =>
        \A n \in ExistedAtCall : fs[CruiseFiles[n].s] = fs0[CruiseFiles[n].s]

\* with all eight files there the call is cut short and leaves them alone
C26_AllExistingKept ==
    CachedCall => \A n \in CruiseNames : fs[CruiseFiles[n].s] = fs0[CruiseFiles[n].s]

----------------------------------------------------------------------------
(* Claims on the structure count of the atlas file.                        *)

\* the call read a file with a "Structures:" line whose count does not
\* parse: no token after the marker, or one that is not an integer
BadCountParsed == Parsed /\ BadStructures(args.atlas_file)

\* C27: when the structure count of a "Structures:" line does not parse,
\* _get_mgdm_intensity_priors still returns the prior names of all the
\* "Intensity Prior:" lines of the file.
C27_BadCountNotFatal ==
    BadCountParsed =>
        /\ outcome.kind = "return"
        /\ outcome.value = LastTokens(args.atlas_file)

\* what the code does instead: it raises at the first such line, whatever
\* priors the file holds
C27_BadCountRaises ==
    BadCountParsed =>
        /\ outcome.kind = "raise"
        /\ outcome.exc \in {"IndexError", "ValueError"}

====
